---- MODULE Spec2Model ----
(***************************************************************************)
(* A model of the construction-document extraction and classification      *)
(* pipeline of src/document_parser.py (class ConstructionDocumentParser).  *)
(*                                                                         *)
(* Python str values are TLA+ strings; a character is a string of length   *)
(* one.  Pure functions of the parser are operators that keep the source's *)
(* names; each public entry point has a specification of its own whose     *)
(* Init draws the call's inputs and whose actions apply the function.      *)
(***************************************************************************)
EXTENDS Integers, Sequences, FiniteSets, TLC

VARIABLES
    pc,         \* position of the call under way
    env,        \* the module's availability flags HAS_PYMUPDF, HAS_PDFPLUMBER, ...
    text,       \* identify_document_type: argument text
    filename,   \* identify_document_type: argument filename
    scores,     \* identify_document_type: local scores, in rule-table order
    result,     \* identify_document_type: returned value
    path,       \* parse_document / extract_text_from_pdf: the file named by the argument
    record,     \* parse_document: returned record
    calls,      \* parse_document: the extractors and the classifier it invoked, in order
    listing,    \* parse_directory: what directory.rglob('*') yields, in order
    idx,        \* parse_directory: number of listing entries consumed
    documents,  \* parse_directory: local documents
    extracted,  \* extract_text_from_pdf: what the call did and returned
    tesseract,  \* _extract_text_with_ocr: what Tesseract does with the page image
    ocr_result, \* _extract_text_with_ocr: the returned string and the sections merged
    llm,        \* detect_document_type: what the chat completion request does
    llm_calls,  \* detect_document_type: number of chat completion requests made
    parser,     \* the ConstructionDocumentParser instance: its attributes
    history     \* the files the instance has parsed before the call under way

clsVars == <<text, filename, scores, result>>
parseVars == <<path, record, calls>>
dirVars == <<listing, idx, documents>>
ocrVars == <<tesseract, ocr_result>>
aiVars == <<llm, llm_calls>>
objVars == <<parser, history>>
vars == <<pc, env, text, filename, scores, result, path, record, calls,
          listing, idx, documents, extracted, tesseract, ocr_result, llm, llm_calls,
          parser, history>>

None == "<None>"

(***************************************************************************)
(* Python str primitives.                                                  *)
(***************************************************************************)
Char(s, i) == SubSeq(s, i, i)

Chars(s) == {Char(s, i) : i \in 1..Len(s)}

LowerAlphabet == "abcdefghijklmnopqrstuvwxyz"
UpperAlphabet == "ABCDEFGHIJKLMNOPQRSTUVWXYZ"

LowerSet == Chars(LowerAlphabet)
UpperSet == Chars(UpperAlphabet)

ToUpper == [c \in LowerSet |->
              Char(UpperAlphabet, CHOOSE i \in 1..Len(LowerAlphabet) : Char(LowerAlphabet, i) = c)]
ToLower == [c \in UpperSet |->
              Char(LowerAlphabet, CHOOSE i \in 1..Len(UpperAlphabet) : Char(UpperAlphabet, i) = c)]

\* str.upper() of one character
UpperChar(c) == IF c \in LowerSet THEN ToUpper[c] ELSE c

\* Letters outside ASCII, written with ASCII stand-ins: "$" is U+0130 (capital
\* I with dot above, as in Turkish), "~" is U+0307 (combining dot above).
\* Neither has an upper-case form of its own; U+0130 lower-cases to "i"
\* followed by U+0307.
CapitalDottedI == "$"
CombiningDot == "~"

\* str.lower() of one character
LowerChar(c) ==
    IF c \in UpperSet THEN ToLower[c]
    ELSE IF c = CapitalDottedI THEN "i" \o CombiningDot
    ELSE c

\* str.upper(): character by character (the halves keep the recursion shallow)
RECURSIVE Upper(_)
Upper(s) ==
    IF Len(s) = 0 THEN ""
    ELSE IF Len(s) = 1 THEN UpperChar(s)
    ELSE LET h == Len(s) \div 2
         IN  Upper(SubSeq(s, 1, h)) \o Upper(SubSeq(s, h + 1, Len(s)))

\* str.lower()
RECURSIVE Lower(_)
Lower(s) ==
    IF Len(s) = 0 THEN ""
    ELSE IF Len(s) = 1 THEN LowerChar(s)
    ELSE LET h == Len(s) \div 2
         IN  Lower(SubSeq(s, 1, h)) \o Lower(SubSeq(s, h + 1, Len(s)))

\* the str operator  sub in s
Contains(s, sub) ==
    \E i \in 1..(Len(s) - Len(sub) + 1) : SubSeq(s, i, i + Len(sub) - 1) = sub

(***************************************************************************)
(* Regular expressions of the rule table.  A pattern is a sequence of      *)
(* atoms; an atom is a character class taken once (lo = 1), optionally     *)
(* (lo = 0) or one or more times (many).                                   *)
(***************************************************************************)
Digit == {"0", "1", "2", "3", "4", "5", "6", "7", "8", "9"}      \* \d
Space == {" ", "\t", "\n", "\r", "\f"}                          \* \s
DashOrSpace == {"-"} \cup Space                                  \* [-\s]
AtoZ == UpperSet                                                 \* [A-Z]

One(cls)  == [cls |-> cls, lo |-> 1, many |-> FALSE]
Opt(cls)  == [cls |-> cls, lo |-> 0, many |-> FALSE]
Plus(cls) == [cls |-> cls, lo |-> 1, many |-> TRUE]
Lit(s)    == [i \in 1..Len(s) |-> One({Char(s, i)})]

\* the pattern from atom i on matches s at position p
RECURSIVE MatchAt(_, _, _, _)
MatchAt(re, i, s, p) ==
    IF i > Len(re) THEN TRUE
    ELSE LET a == re[i]
             here == p <= Len(s) /\ Char(s, p) \in a.cls
         IN  IF a.many
             THEN \E k \in 1..(Len(s) - p + 1) :
                     /\ \A j \in 0..(k - 1) : Char(s, p + j) \in a.cls
                     /\ MatchAt(re, i + 1, s, p + k)
             ELSE \/ here /\ MatchAt(re, i + 1, s, p + 1)
                  \/ a.lo = 0 /\ MatchAt(re, i + 1, s, p)

\* re.search(pattern, s) is not None
re_search(re, s) == \E p \in 1..(Len(s) + 1) : MatchAt(re, 1, s, p)

(***************************************************************************)
(* self.document_types: the rule table, in definition order.               *)
(***************************************************************************)
document_types == <<
    [name |-> "RFI",
     keywords |-> <<"rfi", "request for information", "clarification">>,
     patterns |-> << Lit("RFI") \o <<Opt(DashOrSpace), Plus(Digit)>>,
                     Lit("REQUEST FOR INFORMATION") >>],
    [name |-> "SUBMITTAL",
     keywords |-> <<"submittal", "shop drawing", "product data", "samples">>,
     patterns |-> << Lit("SUBMITTAL"), Lit("SHOP DRAWING"), Lit("PRODUCT DATA") >>],
    [name |-> "SPECIFICATION",
     keywords |-> <<"specification", "section", "csi", "division">>,
     patterns |-> << Lit("SECTION ") \o <<Plus(Digit)>>,
                     Lit("CSI ") \o <<Plus(Digit)>>,
                     Lit("DIVISION ") \o <<Plus(Digit)>> >>],
    [name |-> "CONTRACT",
     keywords |-> <<"contract", "agreement", "general conditions">>,
     patterns |-> << Lit("CONTRACT"), Lit("AGREEMENT"), Lit("GENERAL CONDITIONS") >>],
    [name |-> "CHANGE_ORDER",
     keywords |-> <<"change order", "co", "pco", "change directive">>,
     patterns |-> << Lit("CO") \o <<Opt(DashOrSpace), Plus(Digit)>>,
                     Lit("CHANGE ORDER"), Lit("PCO") >>],
    [name |-> "DRAWING",
     keywords |-> <<"drawing", "plan", "elevation", "section", "detail">>,
     patterns |-> << <<One(AtoZ)>> \o Lit("-") \o <<Plus(Digit)>>,
                     Lit("DRAWING"), Lit("PLAN"), Lit("ELEVATION") >>],
    [name |-> "SCHEDULE",
     keywords |-> <<"schedule", "timeline", "milestone", "gantt">>,
     patterns |-> << Lit("SCHEDULE"), Lit("TIMELINE"), Lit("MILESTONE") >>],
    [name |-> "INVOICE",
     keywords |-> <<"invoice", "payment", "billing", "pay application">>,
     patterns |-> << Lit("INVOICE"), Lit("PAYMENT"), Lit("PAY APP") >>]
>>

UNKNOWN == "UNKNOWN"

(***************************************************************************)
(* identify_document_type(text, filename)                                  *)
(***************************************************************************)
\* a keyword loop that adds inc for every occurrence of the keyword
RECURSIVE KeywordLoopPerOccurrence(_, _, _, _, _)
KeywordLoopPerOccurrence(keywords, i, s, inc, score) ==
    IF i > Len(keywords) THEN score
    ELSE KeywordLoopPerOccurrence(keywords, i + 1, s, inc,
            score + inc * Cardinality({p \in 1..(Len(s) - Len(keywords[i]) + 1) :
                                         SubSeq(s, p, p + Len(keywords[i]) - 1) = Upper(keywords[i])}))

\* for keyword in rules['keywords']: if keyword.upper() in s: score += inc
RECURSIVE KeywordLoop(_, _, _, _, _)
KeywordLoop(keywords, i, s, inc, score) ==
    IF i > Len(keywords) THEN score
    ELSE KeywordLoop(keywords, i + 1, s, inc,
                     IF Contains(s, Upper(keywords[i])) THEN score + inc ELSE score)

\* for pattern in rules['patterns']: if re.search(pattern, text_upper): score += 3
RECURSIVE PatternLoop(_, _, _, _)
PatternLoop(patterns, i, s, score) ==
    IF i > Len(patterns) THEN score
    ELSE PatternLoop(patterns, i + 1, s,
                     IF re_search(patterns[i], s) THEN score + 3 ELSE score)

\* a loop body that leaves the filename out
TypeScoreTextOnly(rules, text_upper, filename_upper) ==
    PatternLoop(rules.patterns, 1, text_upper,
                KeywordLoop(rules.keywords, 1, text_upper, 2, 0))

\* the body of the loop over the rule table: the score of one type
TypeScore(rules, text_upper, filename_upper) ==
    LET afterText     == KeywordLoop(rules.keywords, 1, text_upper, 2, 0)
        afterPatterns == PatternLoop(rules.patterns, 1, text_upper, afterText)
    IN  KeywordLoop(rules.keywords, 1, filename_upper, 1, afterPatterns)

\* scores, as the list of (doc_type, score) items in insertion order
Scores(self, t, f) ==
    LET text_upper     == Upper(t)
        filename_upper == Upper(f)
    IN  [i \in 1..Len(self.document_types) |->
            [doc_type |-> self.document_types[i].name,
             score    |-> TypeScore(self.document_types[i], text_upper, filename_upper)]]

\* a maximum that keeps the last item of maximal key
RECURSIVE MaxItemLast(_, _, _)
MaxItemLast(items, i, best) ==
    IF i > Len(items) THEN best
    ELSE MaxItemLast(items, i + 1, IF items[i].score >= best.score THEN items[i] ELSE best)

\* max(scores.items(), key=lambda x: x[1]): the first item of maximal key
RECURSIVE MaxItem(_, _, _)
MaxItem(items, i, best) ==
    IF i > Len(items) THEN best
    ELSE MaxItem(items, i + 1, IF items[i].score > best.score THEN items[i] ELSE best)

\* a selection that returns None when nothing scored
BestOfNoneWhenZero(items) ==
    IF Len(items) > 0
    THEN LET best_match == MaxItem(items, 2, items[1])
         IN  IF best_match.score > 0 THEN best_match.doc_type ELSE None
    ELSE None

\* a selection without the test for a zero score
BestOfNoZeroTest(items) ==
    IF Len(items) > 0 THEN MaxItem(items, 2, items[1]).doc_type ELSE UNKNOWN

\* lines 115-120: the highest scoring type, or UNKNOWN
BestOf(items) ==
    IF Len(items) > 0
    THEN LET best_match == MaxItem(items, 2, items[1])
         IN  IF best_match.score > 0 THEN best_match.doc_type ELSE UNKNOWN
    ELSE UNKNOWN

identify_document_type(self, t, f) == BestOf(Scores(self, t, f))

(***************************************************************************)
(* More str primitives used by the extractors and the record builder.      *)
(***************************************************************************)
DigitChars == "0123456789"

\* str(n) for a natural number n
RECURSIVE IntToStr(_)
IntToStr(n) ==
    IF n < 10 THEN Char(DigitChars, n + 1)
    ELSE IntToStr(n \div 10) \o Char(DigitChars, (n % 10) + 1)

Min(S) == CHOOSE x \in S : \A y \in S : x <= y
Max(S) == CHOOSE x \in S : \A y \in S : y <= x

\* the positions of s that hold no whitespace
Inked(s) == {i \in 1..Len(s) : Char(s, i) \notin Space}

\* str.strip()
Strip(s) == IF Inked(s) = {} THEN "" ELSE SubSeq(s, Min(Inked(s)), Max(Inked(s)))

\* str.split(): skip whitespace, take the characters up to the next whitespace, repeat
RECURSIVE SplitLoop(_, _, _)
SplitLoop(s, from, out) ==
    LET ink == {i \in from..Len(s) : Char(s, i) \notin Space}
    IN  IF ink = {} THEN out
        ELSE LET start == Min(ink)
                 gaps  == {i \in start..Len(s) : Char(s, i) \in Space}
                 stop  == IF gaps = {} THEN Len(s) + 1 ELSE Min(gaps)
             IN  SplitLoop(s, stop, Append(out, SubSeq(s, start, stop - 1)))

Split(s) == SplitLoop(s, 1, <<>>)

StartsWith(s, prefix) == Len(prefix) <= Len(s) /\ SubSeq(s, 1, Len(prefix)) = prefix

\* the positions of s at which sub occurs
Occurrences(s, sub) ==
    {i \in 1..(Len(s) - Len(sub) + 1) : SubSeq(s, i, i + Len(sub) - 1) = sub}

\* str.replace(old, new), old non-empty: every non-overlapping occurrence, left to right
RECURSIVE Replace(_, _, _)
Replace(s, old, new) ==
    LET occ == Occurrences(s, old)
    IN  IF occ = {} THEN s
        ELSE LET i == Min(occ)
             IN  SubSeq(s, 1, i - 1) \o new
                 \o Replace(SubSeq(s, i + Len(old), Len(s)), old, new)

(***************************************************************************)
(* _extract_construction_patterns(text): re.findall with re.IGNORECASE     *)
(* over the table construction_keywords.                                   *)
(***************************************************************************)
Star(cls) == [cls |-> cls, lo |-> 0, many |-> TRUE]

Quote == {"'", "\""}                                             \* ['"]
Unit  == {"M", "m", "F", "f", "T", "t"}                          \* [MmFfTt]

\* self.construction_keywords, in the order of the dict
construction_keywords == <<
    [category |-> "drawing_numbers",
     patterns |-> << <<One(AtoZ), One({"-"}), Plus(Digit)>>,
                     <<One(AtoZ), Plus(Digit)>>,
                     Lit("SHEET") \o <<Plus(Space), Plus(Digit)>>,
                     Lit("DWG") \o <<Plus(Space), Plus(Digit)>> >>],
    [category |-> "dimensions",
     patterns |-> << <<Plus(Digit), Opt(Quote), Star(Space), Opt({"-"}), Star(Space),
                       Plus(Digit), Opt(Quote)>>,
                     <<Plus(Digit), One({"."}), Plus(Digit), Star(Space), One(Unit)>>,
                     Lit("SCALE") \o <<Star(Space), Opt({":"}), Star(Space), Plus(Digit)>> >>],
    [category |-> "title_block",
     patterns |-> <<Lit("PROJECT"), Lit("DRAWING"), Lit("SHEET"), Lit("REVISION"),
                    Lit("DATE"), Lit("SCALE"), Lit("DWG NO")>>],
    [category |-> "annotations",
     patterns |-> <<Lit("SEE"), Lit("REF"), Lit("DETAIL"), Lit("NOTE"), Lit("CALL"),
                    Lit("CALL OUT")>>],
    [category |-> "room_labels",
     patterns |-> <<Lit("ROOM"), Lit("OFFICE"), Lit("BATH"), Lit("KITCHEN"),
                    Lit("STORAGE"), Lit("CORRIDOR")>>],
    [category |-> "materials",
     patterns |-> <<Lit("CONCRETE"), Lit("STEEL"), Lit("GYPSUM"), Lit("BRICK"),
                    Lit("MASONRY"), Lit("WOOD"), Lit("METAL")>>],
    [category |-> "grid_labels",
     patterns |-> << <<One(AtoZ), Plus(Digit)>>,
                     Lit("GRID") \o <<Plus(Space), One(AtoZ)>>,
                     Lit("COLUMN") \o <<Plus(Space), One(AtoZ)>> >>] >>

\* character c is in the class, letters compared without case (re.IGNORECASE)
InClass(c, cls) == c \in cls \/ UpperChar(c) \in cls \/ LowerChar(c) \in cls

\* how many characters of the class stand in a row from position p on
RECURSIVE Run(_, _, _)
Run(s, p, cls) ==
    IF p <= Len(s) /\ InClass(Char(s, p), cls) THEN 1 + Run(s, p + 1, cls) ELSE 0

OrElse(r, alt) == IF r # 0 THEN r ELSE alt

\* MatchEnd: where the match of the pattern from atom i on, started at p, ends
\* (the position after its last character), 0 when there is none.
\* Backtrack: the same with atom i taking k characters, or as many below k as
\* the rest of the pattern needs (greedy, backtracking).
RECURSIVE MatchEnd(_, _, _, _), Backtrack(_, _, _, _, _)
Backtrack(re, i, s, p, k) ==
    IF k < re[i].lo THEN 0
    ELSE OrElse(MatchEnd(re, i + 1, s, p + k), Backtrack(re, i, s, p, k - 1))

MatchEnd(re, i, s, p) ==
    IF i > Len(re) THEN p
    ELSE Backtrack(re, i, s, p,
            IF re[i].many THEN Run(s, p, re[i].cls)
            ELSE IF p <= Len(s) /\ InClass(Char(s, p), re[i].cls) THEN 1 ELSE 0)

\* a match of the pattern starts at position q of s
StartsAt(re, s, q) ==
    /\ re[1].lo = 0 \/ InClass(Char(s, q), re[1].cls)
    /\ MatchEnd(re, 1, s, q) # 0

\* the match that starts at q, then the matches after it
RECURSIVE FindAll(_, _, _)
FromMatch(re, s, q, r) == <<SubSeq(s, q, r - 1)>> \o FindAll(re, s, r)

\* re.findall(pattern, s, re.IGNORECASE) from position p on: the leftmost
\* match, then the matches after it
FindAll(re, s, p) ==
    LET starts == {q \in p..Len(s) : StartsAt(re, s, q)}
    IN  IF starts = {} THEN <<>>
        ELSE FromMatch(re, s, Min(starts), MatchEnd(re, 1, s, Min(starts)))

MaxListed == 10                      \* matches[:10]

\* the orders in which a set of strings can be iterated
RECURSIVE Orderings(_)
Orderings(S) ==
    IF S = {} THEN {<<>>}
    ELSE UNION {{<<x>> \o o : o \in Orderings(S \ {x})} : x \in S}

\* sep.join(parts)
RECURSIVE Join(_, _, _)
Join(parts, i, sep) ==
    IF i > Len(parts) THEN ""
    ELSE IF i = Len(parts) THEN parts[i]
    ELSE parts[i] \o sep \o Join(parts, i + 1, sep)

\* the lines one pattern can add, given its matches: none without a match,
\* else the category and the distinct strings among the first ten matches, in
\* the order the set iterates them
PatternLines(category, matches) ==
    IF Len(matches) = 0 THEN {}
    ELSE {Upper(category) \o ": " \o Join(o, 1, ", ") :
            o \in Orderings({matches[i] : i \in 1..Min({Len(matches), MaxListed})})}

\* patterns_found.append(line), for each text patterns_found can be joined to
AppendLines(found, lines) ==
    IF lines = {} THEN found
    ELSE {IF f = "" THEN l ELSE f \o "\n" \o l : f \in found, l \in lines}

\* the two loops, from pattern k of category c on
RECURSIVE PatternsFound(_, _, _, _, _)
PatternsFound(self, t, c, k, found) ==
    IF c > Len(self.construction_keywords) THEN found
    ELSE IF k > Len(self.construction_keywords[c].patterns) THEN PatternsFound(self, t, c + 1, 1, found)
    ELSE PatternsFound(self, t, c, k + 1,
            AppendLines(found,
                PatternLines(self.construction_keywords[c].category,
                             FindAll(self.construction_keywords[c].patterns[k], t, 1))))

\* the strings _extract_construction_patterns(text) can return
_extract_construction_patterns(self, t) == PatternsFound(self, t, 1, 1, {""})

(***************************************************************************)
(* _extract_text_with_ocr(page_image, page_num)                            *)
(*                                                                         *)
(* What Tesseract does with a page image is the input: a record [title,    *)
(* uniform, sparse, auto] that holds, for the title-block region and for   *)
(* each page segmentation mode (6, 11, 3), what pytesseract.image_to_string*)
(* does: [raises, out], raises naming the exception ("" when it returns).  *)
(* The result is a set, one member [text, retained] per order in which the *)
(* sets of matched patterns can be iterated: the returned string and the   *)
(* labels of the sections merged into it.                                  *)
(***************************************************************************)
Returned(s)      == [raises |-> "", out |-> s]
RaisedWith(kind) == [raises |-> kind, out |-> ""]

TesseractNotFoundError == "TesseractNotFoundError"

OcrPackagesMissing ==
    "[OCR not available - Python packages (pytesseract/Pillow) not installed]"
OcrBinaryMissing ==
    "[OCR failed - Tesseract binary not found. Install with: brew install tesseract (macOS) or sudo apt-get install tesseract-ocr (Ubuntu)]"
NoTextExtracted == "[No text extracted]"

\* _extract_title_block_text(page_image): "" on any exception
_extract_title_block_text(e, pass) ==
    IF ~e.HAS_TESSERACT THEN ""
    ELSE IF pass.raises # "" THEN ""
    ELSE Strip(pass.out)

\* a pass whose exception also discards what the passes before it read
PassResultRaiseClears(ocr_results, mode, pass, longer_than) ==
    IF pass.raises # "" THEN <<>>
    ELSE IF Strip(pass.out) # "" /\ Len(Strip(pass.out)) > longer_than
         THEN Append(ocr_results, [mode |-> mode, text |-> Strip(pass.out)])
         ELSE ocr_results

\* a pass that is accepted at its threshold length too
PassResultAtThreshold(ocr_results, mode, pass, longer_than) ==
    IF pass.raises # "" THEN ocr_results
    ELSE IF Strip(pass.out) # "" /\ Len(Strip(pass.out)) >= longer_than
         THEN Append(ocr_results, [mode |-> mode, text |-> Strip(pass.out)])
         ELSE ocr_results

\* one pass of the whole page: its stripped text joins ocr_results when it is
\* longer than longer_than characters; an exception is dropped (except: pass)
PassResult(ocr_results, mode, pass, longer_than) ==
    IF pass.raises # "" THEN ocr_results
    ELSE IF Strip(pass.out) # "" /\ Len(Strip(pass.out)) > longer_than
         THEN Append(ocr_results, [mode |-> mode, text |-> Strip(pass.out)])
         ELSE ocr_results

\* set(words)
SetOf(words) == {words[i] : i \in 1..Len(words)}

\* set(s.split())
WordSet(s) == SetOf(Split(s))

\* similarity > 0.8, similarity the words shared with seen over the number
\* of words of text_lower
IsDuplicateOf(text_lower, seen) ==
    5 * Cardinality(WordSet(text_lower) \cap WordSet(seen))
        > 4 * Max({Len(Split(text_lower)), 1})

\* a merge that puts each retained pass before what is already merged
RECURSIVE MergeLoopNewestFirst(_, _, _)
MergeLoopNewestFirst(ocr_results, i, acc) ==
    IF i > Len(ocr_results) THEN acc
    ELSE LET mode         == ocr_results[i].mode
             t            == ocr_results[i].text
             text_lower   == Lower(t)
             is_duplicate == \E seen \in acc.seen_texts : IsDuplicateOf(text_lower, seen)
         IN  MergeLoopNewestFirst(ocr_results, i + 1,
                IF is_duplicate THEN acc
                ELSE [combined_text |-> "[" \o mode \o "]\n" \o t \o "\n\n" \o acc.combined_text,
                      seen_texts    |-> acc.seen_texts \cup {text_lower},
                      retained      |-> Append(acc.retained, mode)])

\* for mode, text in ocr_results
RECURSIVE MergeLoop(_, _, _)
MergeLoop(ocr_results, i, acc) ==
    IF i > Len(ocr_results) THEN acc
    ELSE LET mode         == ocr_results[i].mode
             t            == ocr_results[i].text
             text_lower   == Lower(t)
             is_duplicate == \E seen \in acc.seen_texts : IsDuplicateOf(text_lower, seen)
         IN  MergeLoop(ocr_results, i + 1,
                IF is_duplicate THEN acc
                ELSE [combined_text |-> acc.combined_text \o "[" \o mode \o "]\n" \o t \o "\n\n",
                      seen_texts    |-> acc.seen_texts \cup {text_lower},
                      retained      |-> Append(acc.retained, mode)])

\* The two outer handlers (TesseractNotFoundError, Exception) are not modelled
\* as outcomes: every call made outside the three inner try blocks catches
\* its own exceptions (_preprocess_image_for_construction,
\* _extract_title_block_text) or cannot raise (the merge, the patterns).
_extract_text_with_ocr(self, e, passes) ==
    IF ~e.HAS_TESSERACT THEN {[text |-> OcrPackagesMissing, retained |-> <<>>]}
    ELSE LET title_block_text == _extract_title_block_text(e, passes.title)
             ocr_results ==
                PassResult(PassResult(PassResult(<<>>,
                    "Uniform Block", passes.uniform, 0),
                    "Sparse Text", passes.sparse, 20),
                    "Auto", passes.auto, 50)
             merged == MergeLoop(ocr_results, 1,
                [combined_text |-> IF title_block_text # ""
                                   THEN "[TITLE BLOCK]\n" \o title_block_text \o "\n\n"
                                   ELSE "",
                 seen_texts    |-> {},
                 retained      |-> IF title_block_text # ""
                                   THEN <<"TITLE BLOCK">> ELSE <<>>])
             Final(construction_patterns) ==
                LET combined_text ==
                        IF construction_patterns # ""
                        THEN merged.combined_text \o "[CONSTRUCTION PATTERNS]\n"
                             \o construction_patterns \o "\n"
                        ELSE merged.combined_text
                IN  IF Strip(combined_text) # "" THEN Strip(combined_text)
                    ELSE NoTextExtracted
         IN  {[text |-> Final(cp), retained |-> merged.retained] :
                cp \in _extract_construction_patterns(self, merged.combined_text)}

(***************************************************************************)
(* extract_text_from_pdf(file_path)                                        *)
(*                                                                         *)
(* A PDF is [kind |-> "pdf", pages, fitz_raises, plumber_raises,           *)
(* pypdf_raises]: its pages and, per library, whether that library raises  *)
(* on it.  A page is [native, tables, image_ok, passes, ocr_text]: the     *)
(* text of its text layer, its tables, whether it can be rasterized, what  *)
(* Tesseract does with its image, and what _extract_text_with_ocr returns  *)
(* for that image when the OCR packages are installed.  Any other file     *)
(* makes every library raise.                                              *)
(***************************************************************************)
ocr_threshold == 50

PageHeader(page_num) == "--- Page " \o IntToStr(page_num) \o " ---\n"
OcrPageHeader(page_num) == "--- Page " \o IntToStr(page_num) \o " (OCR) ---\n"

NoTextPlaceholder == "[No text found - attempting OCR...]\n"
MoreTextPlaceholder == "[Attempting OCR for additional content...]\n"
OcrNotInstalledSentinel == "[OCR not available - Tesseract not installed]"
NoTextInPdf == "No text found in PDF"
NoPdfLibrary ==
    "Error: No PDF extraction library available. Please install pymupdf: pip install pymupdf"

IsPdf(file) == file.exists /\ file.is_file /\ file.content.kind = "pdf"

\* the text the first pass appends for one page
FirstPassPage(self, page_num, page_text) ==
    IF Strip(page_text) # "" /\ Len(Strip(page_text)) >= self.ocr_threshold
    THEN "\n" \o PageHeader(page_num) \o page_text \o "\n"
    ELSE IF Strip(page_text) # ""
         THEN "\n" \o PageHeader(page_num) \o page_text \o "\n" \o MoreTextPlaceholder
         ELSE "\n" \o PageHeader(page_num) \o NoTextPlaceholder

\* the threshold test with > in place of >=
NeedsOcrAtThreshold(self, page_text) ==
    ~(Strip(page_text) # "" /\ Len(Strip(page_text)) > self.ocr_threshold)

NeedsOcr(self, page_text) ==
    ~(Strip(page_text) # "" /\ Len(Strip(page_text)) >= self.ocr_threshold)

\* first pass: for page_num, page in enumerate(doc, 1)
RECURSIVE FirstPass(_, _, _, _)
FirstPass(self, pages, page_num, acc) ==
    IF page_num > Len(pages) THEN acc
    ELSE FirstPass(self, pages, page_num + 1,
            [text |-> acc.text \o FirstPassPage(self, page_num, pages[page_num].native),
             pages_needing_ocr |->
                IF NeedsOcr(self, pages[page_num].native)
                THEN Append(acc.pages_needing_ocr, page_num)
                ELSE acc.pages_needing_ocr])

\* _pdf_page_to_image(page) is not None
PageImageOk(e, page) == e.HAS_PYMUPDF /\ e.HAS_TESSERACT /\ page.image_ok

\* the two text.replace calls that put the OCR text of one page in place
InsertOcr(t, page_num, ocr_text) ==
    LET new == OcrPageHeader(page_num) \o ocr_text \o "\n"
    IN  Replace(Replace(t, PageHeader(page_num) \o NoTextPlaceholder, new),
                PageHeader(page_num) \o MoreTextPlaceholder, new)

\* _extract_text_with_ocr(page_image, page_num) for the image of the page;
\* page.ocr_text is its outcome on an instance whose construction_keywords
\* are those __init__ assigns, the only value the attribute ever has
OcrText(self, e, page) == IF ~e.HAS_TESSERACT THEN OcrPackagesMissing ELSE page.ocr_text

\* second pass: for page_num, page in pages_needing_ocr; raster_pages are the
\* pages handed to _pdf_page_to_image, ocr_pages those handed to
\* _extract_text_with_ocr
RECURSIVE SecondPass(_, _, _, _, _, _)
SecondPass(self, e, pages, need, k, acc) ==
    IF k > Len(need) THEN acc
    ELSE LET page_num == need[k]
             page     == pages[page_num]
             ocr_text == OcrText(self, e, page)
         IN  IF PageImageOk(e, page)
             THEN SecondPass(self, e, pages, need, k + 1,
                    [text |-> IF ocr_text # "" /\ ocr_text # OcrNotInstalledSentinel
                              THEN InsertOcr(acc.text, page_num, ocr_text)
                              ELSE acc.text,
                     raster_pages |-> Append(acc.raster_pages, page_num),
                     ocr_pages |-> Append(acc.ocr_pages, page_num)])
             ELSE SecondPass(self, e, pages, need, k + 1,
                    [acc EXCEPT !.raster_pages = Append(acc.raster_pages, page_num)])

\* the pymupdf strategy, when it does not raise
PymupdfText(self, e, pdf) ==
    LET first  == FirstPass(self, pdf.pages, 1, [text |-> "", pages_needing_ocr |-> <<>>])
        start  == [text |-> first.text, raster_pages |-> <<>>, ocr_pages |-> <<>>]
        second == IF Len(first.pages_needing_ocr) > 0 /\ e.HAS_TESSERACT
                  THEN SecondPass(self, e, pdf.pages, first.pages_needing_ocr, 1, start)
                  ELSE start
    IN  [text |-> IF Strip(second.text) # "" THEN second.text ELSE NoTextInPdf,
         pages_needing_ocr |-> first.pages_needing_ocr,
         raster_pages |-> second.raster_pages,
         ocr_pages |-> second.ocr_pages]

\* " | ".join([str(cell) if cell else "" for cell in row])
RECURSIVE JoinCells(_, _, _)
JoinCells(row, i, sep) ==
    IF i > Len(row) THEN ""
    ELSE (IF i > 1 THEN sep ELSE "")
         \o (IF row[i] = None THEN "" ELSE row[i])
         \o JoinCells(row, i + 1, sep)

RECURSIVE PlumberRows(_, _)
PlumberRows(table, r) ==
    IF r > Len(table) THEN ""
    ELSE (IF Len(table[r]) > 0 THEN JoinCells(table[r], 1, " | ") \o "\n" ELSE "")
         \o PlumberRows(table, r + 1)

RECURSIVE PlumberTables(_, _)
PlumberTables(tables, k) ==
    IF k > Len(tables) THEN ""
    ELSE PlumberRows(tables[k], 1) \o PlumberTables(tables, k + 1)

\* the pdfplumber strategy, when it does not raise
RECURSIVE PlumberPages(_, _)
PlumberPages(pages, page_num) ==
    IF page_num > Len(pages) THEN ""
    ELSE LET page == pages[page_num]
         IN  (IF page.native # ""
              THEN "\n" \o PageHeader(page_num) \o page.native \o "\n" ELSE "")
             \o (IF Len(page.tables) > 0
                 THEN "\n[Tables on page " \o IntToStr(page_num) \o "]\n"
                      \o PlumberTables(page.tables, 1)
                 ELSE "")
             \o PlumberPages(pages, page_num + 1)

PdfplumberText(pdf) ==
    LET t == PlumberPages(pdf.pages, 1)
    IN  IF Strip(t) # "" THEN t ELSE NoTextInPdf

\* the PyPDF2 strategy, when it does not raise
RECURSIVE PyPdf2Text(_, _)
PyPdf2Text(pages, page_num) ==
    IF page_num > Len(pages) THEN ""
    ELSE "\n" \o PageHeader(page_num)
         \o (IF pages[page_num].native # ""
             THEN pages[page_num].native \o "\n" ELSE "[No text content]\n")
         \o PyPdf2Text(pages, page_num + 1)

\* str(e) of the exception a library raises on a file
PdfErrorMessage == "cannot open broken document"

FitzRaises(file)    == ~IsPdf(file) \/ file.content.fitz_raises
PlumberRaises(file) == ~IsPdf(file) \/ file.content.plumber_raises
PyPdfRaises(file)   == ~IsPdf(file) \/ file.content.pypdf_raises

\* the PyPDF2 strategy: [text, raised], raised the exception that leaves the call
PyPdf2Uncaught(file) ==
    IF PyPdfRaises(file) THEN [text |-> "", raised |-> PdfErrorMessage]
    ELSE [text |-> PyPdf2Text(file.content.pages, 1), raised |-> ""]

PyPdf2Strategy(file) ==
    IF PyPdfRaises(file) THEN [text |-> "Error: " \o PdfErrorMessage, raised |-> ""]
    ELSE [text |-> PyPdf2Text(file.content.pages, 1), raised |-> ""]

Installed(has, name) == IF has THEN <<name>> ELSE <<>>

\* the installed libraries among the first n of pymupdf, pdfplumber, PyPDF2
Attempted(e, n) ==
    (IF n >= 1 THEN Installed(e.HAS_PYMUPDF, "pymupdf") ELSE <<>>)
    \o (IF n >= 2 THEN Installed(e.HAS_PDFPLUMBER, "pdfplumber") ELSE <<>>)
    \o (IF n >= 3 THEN Installed(e.HAS_PYPDF2, "PyPDF2") ELSE <<>>)

NoOcr == [pages_needing_ocr |-> <<>>, raster_pages |-> <<>>, ocr_pages |-> <<>>]

\* pdfplumber tried before pymupdf
ExtractPlumberFirst(self, e, file) ==
    LET plumber == Installed(e.HAS_PDFPLUMBER, "pdfplumber")
        both    == plumber \o Installed(e.HAS_PYMUPDF, "pymupdf")
        all     == both \o Installed(e.HAS_PYPDF2, "PyPDF2")
    IN  IF e.HAS_PDFPLUMBER /\ ~PlumberRaises(file)
        THEN [text |-> PdfplumberText(file.content), raised |-> "", tried |-> plumber]
             @@ NoOcr
        ELSE IF e.HAS_PYMUPDF /\ ~FitzRaises(file)
        THEN [raised |-> "", tried |-> both] @@ PymupdfText(self, e, file.content)
        ELSE IF e.HAS_PYPDF2
        THEN PyPdf2Strategy(file) @@ [tried |-> all] @@ NoOcr
        ELSE [text |-> NoPdfLibrary, raised |-> "", tried |-> all] @@ NoOcr

\* [text, raised, tried, pages_needing_ocr, raster_pages, ocr_pages]: the
\* returned string, the exception that leaves the call ("" for none), the
\* strategies attempted in order, and the pages marked for OCR, handed to
\* _pdf_page_to_image and handed to _extract_text_with_ocr
extract_text_from_pdf(self, e, file) ==
    IF e.HAS_PYMUPDF /\ ~FitzRaises(file)
    THEN [raised |-> "", tried |-> Attempted(e, 1)] @@ PymupdfText(self, e, file.content)
    ELSE IF e.HAS_PDFPLUMBER /\ ~PlumberRaises(file)
    THEN [text |-> PdfplumberText(file.content), raised |-> "", tried |-> Attempted(e, 2)]
         @@ NoOcr
    ELSE IF e.HAS_PYPDF2
    THEN PyPdf2Strategy(file) @@ [tried |-> Attempted(e, 3)] @@ NoOcr
    ELSE [text |-> NoPdfLibrary, raised |-> "", tried |-> Attempted(e, 3)] @@ NoOcr

(***************************************************************************)
(* extract_text_from_docx, extract_text_from_excel and reading a text file *)
(*                                                                         *)
(* A Word document is [kind |-> "docx", paragraphs, tables], a workbook    *)
(* [kind |-> "xlsx", sheets] with sheets [name, rows]; a cell is a string  *)
(* or None.  "xls" is a legacy workbook, which openpyxl.load_workbook      *)
(* rejects; "garbage" is a corrupt file; "dir" a directory.  A document    *)
(* can carry unreadable |-> <<k, r>>: row r of table k has merged cells    *)
(* that row.cells cannot lay out and raises on.  A workbook can carry      *)
(* chartsheet |-> k: sheet k is a chart sheet, which has no iter_rows.     *)
(***************************************************************************)
RECURSIVE DocxParagraphs(_, _)
DocxParagraphs(paragraphs, i) ==
    IF i > Len(paragraphs) THEN ""
    ELSE paragraphs[i] \o "\n" \o DocxParagraphs(paragraphs, i + 1)

RECURSIVE DocxCells(_, _)
DocxCells(row, i) ==
    IF i > Len(row) THEN "" ELSE row[i] \o "\t" \o DocxCells(row, i + 1)

RECURSIVE DocxRows(_, _)
DocxRows(table, r) ==
    IF r > Len(table) THEN ""
    ELSE DocxCells(table[r], 1) \o "\n" \o DocxRows(table, r + 1)

RECURSIVE DocxTables(_, _)
DocxTables(tables, k) ==
    IF k > Len(tables) THEN "" ELSE DocxRows(tables[k], 1) \o DocxTables(tables, k + 1)

PackageNotFoundError == "PackageNotFoundError"
IndexError == "IndexError"
InvalidFileException == "InvalidFileException"
AttributeError == "AttributeError"

\* the try block of extract_text_from_docx: [text, raises], the text
\* accumulated and the exception that ends the block ("" when it returns)
DocxBody(file) ==
    IF ~(file.exists /\ file.is_file /\ file.content.kind = "docx")
    THEN [text |-> "", raises |-> PackageNotFoundError]
    ELSE LET doc == file.content
         IN  IF "unreadable" \in DOMAIN doc
             THEN [text   |-> DocxParagraphs(doc.paragraphs, 1)
                              \o DocxTables(SubSeq(doc.tables, 1, doc.unreadable[1] - 1), 1)
                              \o DocxRows(SubSeq(doc.tables[doc.unreadable[1]], 1,
                                                 doc.unreadable[2] - 1), 1),
                   raises |-> IndexError]
             ELSE [text   |-> DocxParagraphs(doc.paragraphs, 1) \o DocxTables(doc.tables, 1),
                   raises |-> ""]

DocxRaises(file) == DocxBody(file).raises # ""

\* an extractor that returns what it had read when the exception came
DocxKeepsAccumulated(file) == DocxBody(file).text

extract_text_from_docx(file) ==
    IF DocxRaises(file) THEN "" ELSE DocxBody(file).text

RECURSIVE ExcelRows(_, _)
ExcelRows(rows, r) ==
    IF r > Len(rows) THEN ""
    ELSE JoinCells(rows[r], 1, "\t") \o "\n" \o ExcelRows(rows, r + 1)

RECURSIVE ExcelSheets(_, _)
ExcelSheets(sheets, k) ==
    IF k > Len(sheets) THEN ""
    ELSE "Sheet: " \o sheets[k].name \o "\n" \o ExcelRows(sheets[k].rows, 1) \o "\n"
         \o ExcelSheets(sheets, k + 1)

\* the try block of extract_text_from_excel: [text, raises]
ExcelBody(file) ==
    IF ~(file.exists /\ file.is_file /\ file.content.kind = "xlsx")
    THEN [text |-> "", raises |-> InvalidFileException]
    ELSE LET workbook == file.content
         IN  IF "chartsheet" \in DOMAIN workbook
             THEN [text   |-> ExcelSheets(SubSeq(workbook.sheets, 1, workbook.chartsheet - 1), 1)
                              \o "Sheet: " \o workbook.sheets[workbook.chartsheet].name \o "\n",
                   raises |-> AttributeError]
             ELSE [text |-> ExcelSheets(workbook.sheets, 1), raises |-> ""]

ExcelRaises(file) == ExcelBody(file).raises # ""

extract_text_from_excel(file) ==
    IF ExcelRaises(file) THEN "" ELSE ExcelBody(file).text

\* open(file_path, 'r', encoding='utf-8') and f.read() raise
ReadRaises(file) == ~(file.exists /\ file.is_file /\ file.content.kind = "txt")

\* str(e) of the exception reading a text file raises
ReadErrorMessage == "'utf-8' codec can't decode byte 0xff in position 0: invalid start byte"

(***************************************************************************)
(* pathlib: Path(file_path).name, .suffix and str(Path(file_path))         *)
(***************************************************************************)
\* str.rfind(c) + 1
LastIndexOf(s, c) == Max({0} \cup {i \in 1..Len(s) : Char(s, i) = c})

PathName(p) == SubSeq(p, LastIndexOf(p, "/") + 1, Len(p))

PathSuffix(p) ==
    LET name == PathName(p)
        i    == LastIndexOf(name, ".")
    IN  IF 1 < i /\ i < Len(name) THEN SubSeq(name, i, Len(name)) ELSE ""

PathStr(p) == IF p = "" THEN "." ELSE p

(***************************************************************************)
(* parse_document(file_path).  The result is [record, calls]: the returned *)
(* record and the extractors and classifier invoked on the way.  A record  *)
(* with the one field raised stands for an exception leaving the function. *)
(***************************************************************************)
ErrorRecord(msg) == [error |-> msg]

IsErrorRecord(r) == "error" \in DOMAIN r

Raised(r) == "raised" \in DOMAIN r

\* a record whose word count comes from text.split(' ')
BuildRecordSplitOnBlank(self, file, t) ==
    [filename      |-> PathName(file.path),
     file_path     |-> PathStr(file.path),
     document_type |-> identify_document_type(self, t, PathName(file.path)),
     text_content  |-> t,
     word_count    |-> Cardinality(Occurrences(t, " ")) + 1,
     char_count    |-> Len(t)]

\* lines 466-476: the record built from the extracted text
BuildRecord(self, file, t) ==
    [filename      |-> PathName(file.path),
     file_path     |-> PathStr(file.path),
     document_type |-> identify_document_type(self, t, PathName(file.path)),
     text_content  |-> t,
     word_count    |-> Len(Split(t)),
     char_count    |-> Len(t)]

Parsed(self, file, t, extractor) ==
    [record |-> BuildRecord(self, file, t), calls |-> <<extractor, "identify_document_type">>]

\* a text branch without its try/except: the exception leaves parse_document
ReadTextFileUncaught(self, file) ==
    IF ReadRaises(file)
    THEN [record |-> [raised |-> ReadErrorMessage], calls |-> <<"open">>]
    ELSE Parsed(self, file, file.content.data, "open")

\* lines 457-462: the .txt branch
ReadTextFile(self, file) ==
    IF ReadRaises(file)
    THEN [record |-> ErrorRecord("Could not read text file: " \o ReadErrorMessage),
          calls |-> <<"open">>]
    ELSE Parsed(self, file, file.content.data, "open")

\* a dispatch that compares the extension as it is spelled
DispatchCaseSensitive(self, e, file) ==
    LET file_extension == PathSuffix(file.path)
    IN  IF file_extension = ".pdf"
        THEN Parsed(self, file, extract_text_from_pdf(self, e, file).text, "extract_text_from_pdf")
        ELSE IF file_extension = ".docx"
        THEN Parsed(self, file, extract_text_from_docx(file), "extract_text_from_docx")
        ELSE IF file_extension \in {".xlsx", ".xls"}
        THEN Parsed(self, file, extract_text_from_excel(file), "extract_text_from_excel")
        ELSE IF file_extension = ".txt"
        THEN ReadTextFile(self, file)
        ELSE [record |-> ErrorRecord("Unsupported file type: " \o file_extension),
              calls |-> <<>>]

\* lines 446-464: the extractor chosen by the lower-cased extension
Dispatch(self, e, file) ==
    LET file_extension == Lower(PathSuffix(file.path))
    IN  IF file_extension = ".pdf"
        THEN Parsed(self, file, extract_text_from_pdf(self, e, file).text, "extract_text_from_pdf")
        ELSE IF file_extension = ".docx"
        THEN Parsed(self, file, extract_text_from_docx(file), "extract_text_from_docx")
        ELSE IF file_extension \in {".xlsx", ".xls"}
        THEN Parsed(self, file, extract_text_from_excel(file), "extract_text_from_excel")
        ELSE IF file_extension = ".txt"
        THEN ReadTextFile(self, file)
        ELSE [record |-> ErrorRecord("Unsupported file type: " \o file_extension),
              calls |-> <<>>]

\* a parse_document that goes to the dispatch without asking whether the file exists
ParseWithoutExistsTest(self, e, file) == Dispatch(self, e, file)

parse_document(self, e, file) ==
    IF ~file.exists
    THEN [record |-> ErrorRecord("File not found"), calls |-> <<>>]
    ELSE Dispatch(self, e, file)

\* a parse_document that takes a file it found as the sign of a digital
\* batch and stops sending short pages to OCR
AttributesRetuned(self, e, file) ==
    IF file.exists THEN [self EXCEPT !.ocr_threshold = 0] ELSE self

\* the attributes of the instance when parse_document(file_path) returns:
\* neither the method nor the extractors, the OCR subsystem and the
\* classifier it calls assign or mutate one
AttributesAfter(self, e, file) == self

(***************************************************************************)
(* parse_directory(directory_path): one turn of the loop over rglob('*')   *)
(***************************************************************************)
supported_extensions == {".pdf", ".docx", ".doc", ".xlsx", ".xls", ".txt"}

Selected(file) == file.is_file /\ Lower(PathSuffix(file.path)) \in supported_extensions

(***************************************************************************)
(* ConstructionAI.detect_document_type(filename, text_content)             *)
(*                                                                         *)
(* What the chat completion request does is the input: [fails, content],   *)
(* fails naming the exception the request or the reading of its response   *)
(* raises ("" for none), content the text of the first choice.             *)
(***************************************************************************)
valid_types ==
    <<"contract", "specification", "rfi", "submittal", "drawing", "change_order",
      "addendum", "shop_drawing", "as_built", "unknown">>

\* the if/elif chain over filename_lower, in order
filename_rules == <<
    [needles |-> <<"contract", "agreement">>,           type |-> "contract"],
    [needles |-> <<"spec", "specification">>,           type |-> "specification"],
    [needles |-> <<"rfi", "request for information">>,  type |-> "rfi"],
    [needles |-> <<"submittal">>,                       type |-> "submittal"],
    [needles |-> <<"drawing", "dwg", "plan">>,          type |-> "drawing"],
    [needles |-> <<"change order", "co">>,              type |-> "change_order"],
    [needles |-> <<"addendum">>,                        type |-> "addendum"],
    [needles |-> <<"shop drawing">>,                    type |-> "shop_drawing"],
    [needles |-> <<"as-built", "as built">>,            type |-> "as_built"] >>

\* the type of the first rule one of whose needles is in the filename, or None
RECURSIVE FilenameRule(_, _)
FilenameRule(filename_lower, i) ==
    IF i > Len(filename_rules) THEN None
    ELSE IF \E k \in 1..Len(filename_rules[i].needles) :
                Contains(filename_lower, filename_rules[i].needles[k])
         THEN filename_rules[i].type
         ELSE FilenameRule(filename_lower, i + 1)

min_content == 50

\* a length test on the text as it is, not stripped
TooShortUnstripped(text_content) == text_content = "" \/ Len(text_content) < min_content

\* not text_content or len(text_content.strip()) < 50
TooShort(text_content) == text_content = "" \/ Len(Strip(text_content)) < min_content

\* for valid_type in valid_types: the first that holds or is held by the response
RECURSIVE PartialMatch(_, _)
PartialMatch(detected_type, i) ==
    IF i > Len(valid_types) THEN "unknown"
    ELSE IF Contains(detected_type, valid_types[i]) \/ Contains(valid_types[i], detected_type)
         THEN valid_types[i]
         ELSE PartialMatch(detected_type, i + 1)

\* lines 196-214: the response normalized and matched against valid_types
Validate(content) ==
    LET stripped      == Lower(Strip(content))
        detected_type == IF Contains(stripped, " ") THEN Replace(stripped, " ", "_")
                         ELSE stripped
    IN  IF \E i \in 1..Len(valid_types) : valid_types[i] = detected_type
        THEN detected_type
        ELSE PartialMatch(detected_type, 1)

\* the request without its try/except: the exception leaves the call
ClassifyUncaught(completion) ==
    IF completion.fails # "" THEN [type |-> None, raised |-> completion.fails]
    ELSE [type |-> Validate(completion.content), raised |-> ""]

\* lines 186-218: the request and the reading of its response, inside try
Classify(completion) ==
    IF completion.fails # "" THEN [type |-> "unknown", raised |-> ""]
    ELSE [type |-> Validate(completion.content), raised |-> ""]

\* [type, raised, llm_calls]: the returned type, the exception that leaves the
\* call ("" for none) and the number of chat completion requests made
detect_document_type(f, text_content, completion) ==
    LET by_filename == FilenameRule(Lower(f), 1)
    IN  IF by_filename # None
        THEN [type |-> by_filename, raised |-> "", llm_calls |-> 0]
        ELSE IF TooShort(text_content)
        THEN [type |-> "unknown", raised |-> "", llm_calls |-> 0]
        ELSE Classify(completion) @@ [llm_calls |-> 1]

(***************************************************************************)
(* The instance ConstructionDocumentParser() builds, and the values of the *)
(* variables of the calls that are not under way.                          *)
(***************************************************************************)
NewParser ==
    [ocr_threshold         |-> ocr_threshold,
     construction_keywords |-> construction_keywords,
     document_types        |-> document_types]

OcrIdle == tesseract = None /\ ocr_result = None
AiIdle  == llm = None /\ llm_calls = 0

(***************************************************************************)
(* Inputs.  Texts given to the classifier are assembled from fragments.    *)
(***************************************************************************)
MaxFragments == 2

Fragments == {"RFI-102", "rfi", "Contract Agreement", "section", "Section 5",
              "scope", "plan", " ", "xyz"}

RECURSIVE TextsOf(_)
TextsOf(n) ==
    IF n = 0 THEN {""}
    ELSE LET shorter == TextsOf(n - 1)
         IN  shorter \cup {t \o w : t \in shorter, w \in Fragments}

Texts == TextsOf(MaxFragments)

Filenames == {"RFI-102.pdf", "notes.txt", "scope.txt", "Contract.docx", "a1.xlsx"}

\* the availability flags set by the imports at the top of the module
Envs == [HAS_PYMUPDF : BOOLEAN, HAS_PDFPLUMBER : BOOLEAN,
         HAS_PYPDF2 : BOOLEAN, HAS_TESSERACT : BOOLEAN]

NoEnv == [HAS_PYMUPDF |-> TRUE, HAS_PDFPLUMBER |-> TRUE,
          HAS_PYPDF2 |-> TRUE, HAS_TESSERACT |-> TRUE]

\* pages of PDF files
LongText == "This Contract Agreement is made between the Owner and the Contractor.\n"

\* what Tesseract does with the four regions and modes of one page image
Passes(title, uniform, sparse, auto) ==
    [title |-> title, uniform |-> uniform, sparse |-> sparse, auto |-> auto]

Reads(s)     == Passes(Returned(""), Returned(s), Returned(s), Returned(s))
BinaryMissing ==
    Passes(RaisedWith(TesseractNotFoundError), RaisedWith(TesseractNotFoundError),
           RaisedWith(TesseractNotFoundError), RaisedWith(TesseractNotFoundError))

\* the pages are chosen so that no pattern of construction_keywords matches two
\* different strings: _extract_text_with_ocr has one outcome; ocr_text is that
\* outcome on an instance that holds the construction_keywords of __init__
Page(native, tables, image_ok, passes) ==
    [native |-> native, tables |-> tables, image_ok |-> image_ok, passes |-> passes,
     ocr_text |-> (CHOOSE r \in _extract_text_with_ocr(NewParser, NoEnv, passes) : TRUE).text]

EdgeText == "  Addendum 12 to the Agreement; all Work as revised.\n"  \* 50 characters, stripped
NearText == "Addendum 3 to the Agreement; all Work as revised.\n"      \* 49 characters, stripped

DigitalPage  == Page(LongText, <<>>, TRUE, Reads(LongText))
ScannedPage  == Page("", <<>>, TRUE, Reads("FLOOR PLAN\n"))
BlankPage    == Page(" \n", <<>>, TRUE, Reads(""))
StampedPage  == Page("Sheet A-1\n", <<>>, TRUE, Reads("GRID B"))
OpaquePage   == Page("", <<>>, FALSE, Reads(""))
TablePage    == Page(NearText, << << <<"Item", None>>, <<>>, <<"Steel", "12">> >> >>,
                     TRUE, Reads("Bid 7 Item Steel 12"))
EdgePage     == Page(EdgeText, <<>>, TRUE, Reads(EdgeText))
UnreadPage   == Page("", <<>>, TRUE, BinaryMissing)
\* ruled lines and no text layer: pdfplumber finds a table of empty cells
RuledPage    == Page("", << << <<None, None>> >> >>, TRUE, Reads(""))

\* the pages of the PDF files of SpecPdf: one of each way through the two passes
PageKinds == {ScannedPage, BlankPage, OpaquePage, TablePage, EdgePage, UnreadPage,
              RuledPage}

Pdf(pages, fitz_raises, plumber_raises, pypdf_raises) ==
    [kind |-> "pdf", pages |-> pages, fitz_raises |-> fitz_raises,
     plumber_raises |-> plumber_raises, pypdf_raises |-> pypdf_raises]

File(p, content) == [path |-> p, exists |-> TRUE, is_file |-> TRUE, content |-> content]

Garbage == [kind |-> "garbage"]

\* the paths parse_document is called with, and the files parse_directory finds
EmptyPath   == [path |-> "", exists |-> TRUE, is_file |-> FALSE, content |-> [kind |-> "dir"]]
MissingPdf  == [path |-> "site/missing.pdf", exists |-> FALSE, is_file |-> FALSE,
                content |-> [kind |-> "none"]]
MissingTxt  == [path |-> "gone.txt", exists |-> FALSE, is_file |-> FALSE,
                content |-> [kind |-> "none"]]
NotesTxt    == File("site/notes.txt",
                    [kind |-> "txt", data |-> "Site  notes\n\tplan review \n"])
EmptyTxt    == File("empty.txt", [kind |-> "txt", data |-> ""])
BadTxt      == File("bad.txt", [kind |-> "bad_utf8"])
RfiPdf      == File("RFI-102.pdf", Pdf(<<StampedPage, ScannedPage>>, FALSE, FALSE, FALSE))
UpperPdf    == File("PLANS.PDF", Pdf(<<DigitalPage>>, TRUE, FALSE, FALSE))
CorruptPdf  == File("scan.pdf", Garbage)
ContractDoc == File("Contract.docx",
                    [kind |-> "docx", paragraphs |-> <<"General Conditions", "">>,
                     tables |-> << << <<"Party", "Owner">> >> >>])
CorruptDoc  == File("broken.docx", Garbage)
BudgetXlsx  == File("budget.xlsx",
                    [kind |-> "xlsx",
                     sheets |-> << [name |-> "Pay", rows |-> << <<"Invoice", None, "7">>, <<>> >>] >>])
CorruptXlsx == File("broken.xlsx", Garbage)
LegacyXls   == File("old.xls", [kind |-> "xls"])
LegacyDoc   == File("spec.doc", [kind |-> "doc"])
Photo       == File("site/photo.png", [kind |-> "png"])
Subdir      == [path |-> "archive.pdf", exists |-> TRUE, is_file |-> FALSE,
                content |-> [kind |-> "dir"]]
\* a text file that carries another format's extension
Misnamed    == File("minutes.docx", [kind |-> "txt", data |-> "Meeting minutes\n"])

Paths == {EmptyPath, MissingPdf, MissingTxt, NotesTxt, EmptyTxt, BadTxt, RfiPdf, UpperPdf,
          CorruptPdf, ContractDoc, CorruptDoc, BudgetXlsx, CorruptXlsx, LegacyXls,
          LegacyDoc, Photo, Subdir, Misnamed}

\* what rglob('*') can yield: entries that exist
DirEntries == {NotesTxt, BadTxt, RfiPdf, CorruptPdf, ContractDoc, CorruptDoc,
               LegacyDoc, Photo, Subdir}

DirEnvs == {e \in Envs : e.HAS_PYPDF2}

\* parse_document on a newly built instance is a function of the flags and the
\* file: its value on the entries a directory can hold
ParsedEntries ==
    {[env |-> e, file |-> file, doc_data |-> parse_document(NewParser, e, file).record] :
        e \in DirEnvs, file \in DirEntries}

ParsedEntry(e, file) ==
    (CHOOSE p \in ParsedEntries : p.env = e /\ p.file = file).doc_data

MaxFiles == 3

MaxPages == 2

RECURSIVE PagesUpTo(_)
PagesUpTo(n) ==
    IF n = 0 THEN {<<>>}
    ELSE LET shorter == PagesUpTo(n - 1)
         IN  shorter \cup {Append(ps, pg) : ps \in shorter, pg \in PageKinds}

PdfFiles ==
    {File("drawings/A-101.pdf", Pdf(ps, f, pl, py)) :
        ps \in PagesUpTo(MaxPages), f \in BOOLEAN, pl \in BOOLEAN, py \in BOOLEAN}

NoFile == [path |-> "", exists |-> FALSE, is_file |-> FALSE, content |-> [kind |-> "none"]]

(***************************************************************************)
(* Spec: one call of the parser, identify_document_type(text, filename) or *)
(* parse_document(file_path).                                              *)
(***************************************************************************)
InitIdentify ==
    /\ pc = "identify_document_type"
    /\ env = NoEnv
    /\ text \in Texts
    /\ filename \in Filenames
    /\ scores = <<>> /\ result = None
    /\ path = NoFile /\ record = None /\ calls = <<>>
    /\ listing = <<>> /\ idx = 0 /\ documents = <<>>
    /\ extracted = None
    /\ OcrIdle /\ AiIdle /\ parser = NewParser /\ history = <<>>

InitParseDocument ==
    /\ pc = "parse_document"
    /\ env \in Envs
    /\ path \in Paths
    /\ text = "" /\ filename = "" /\ scores = <<>> /\ result = None
    /\ record = None /\ calls = <<>>
    /\ listing = <<>> /\ idx = 0 /\ documents = <<>>
    /\ extracted = None
    /\ OcrIdle /\ AiIdle /\ parser = NewParser /\ history = <<>>

Init == InitIdentify \/ InitParseDocument

IdentifyDocumentType ==
    /\ pc = "identify_document_type"
    /\ scores' = Scores(parser, text, filename)
    /\ result' = identify_document_type(parser, text, filename)
    /\ pc' = "identified"
    /\ UNCHANGED <<env, text, filename, parseVars, dirVars, extracted, ocrVars, aiVars, objVars>>

ParseDocument ==
    /\ pc = "parse_document"
    /\ LET out == parse_document(parser, env, path)
       IN  /\ record' = out.record
           /\ calls' = out.calls
           /\ pc' = IF Raised(out.record) THEN "raised" ELSE "parsed"
    /\ parser' = AttributesAfter(parser, env, path)
    /\ UNCHANGED <<env, path, clsVars, dirVars, extracted, ocrVars, aiVars, history>>

Next == IdentifyDocumentType \/ ParseDocument

Spec == Init /\ [][Next]_vars

(***************************************************************************)
(* Properties of the classifier (Spec).                                    *)
(***************************************************************************)
ClosedTypeSet == {"RFI", "SUBMITTAL", "SPECIFICATION", "CONTRACT", "CHANGE_ORDER",
                  "DRAWING", "SCHEDULE", "INVOICE", "UNKNOWN"}

TypeIndex == 1..Len(document_types)

\* keyword k of type i occurs in s, whatever the letter case
KeywordIn(i, k, s) == Contains(Upper(s), Upper(document_types[i].keywords[k]))

\* pattern k of type i matches s, whatever the letter case
PatternIn(i, k, s) == re_search(document_types[i].patterns[k], Upper(s))

KeywordsIn(i, s) == {k \in DOMAIN document_types[i].keywords : KeywordIn(i, k, s)}
PatternsIn(i, s) == {k \in DOMAIN document_types[i].patterns : PatternIn(i, k, s)}

NoSignalIn(s) == \A i \in TypeIndex : KeywordsIn(i, s) = {} /\ PatternsIn(i, s) = {}
NoKeywordIn(s) == \A i \in TypeIndex : KeywordsIn(i, s) = {}

Identified == pc = "identified"

MaxScore == Max({scores[i].score : i \in DOMAIN scores})

\* C1: identify_document_type returns a member of the closed type set for every
\* text and filename and never fails, and so the document_type of every non-error
\* record parse_document returns is a member of that set.
C1_TypeInClosedSet ==
    /\ pc # "raised"
    /\ Identified => result \in ClosedTypeSet
    /\ pc = "parsed" /\ ~IsErrorRecord(record) => record.document_type \in ClosedTypeSet

C1_Witness ==
    /\ pc = "parsed"
    /\ ~IsErrorRecord(record)
    /\ record.document_type = "INVOICE"

\* C2 as stated: a text with no keyword match and no pattern match for any type
\* is classified UNKNOWN for every filename.
C2_UnknownForEveryFilename ==
    Identified /\ NoSignalIn(text) => result = UNKNOWN

\* C2 amended: a text with no keyword match and no pattern match for any type is
\* classified UNKNOWN for every filename that contains no keyword of any type.
C2_UnknownWithoutSignal ==
    Identified /\ NoSignalIn(text) /\ NoKeywordIn(filename) => result = UNKNOWN

C2_Witness ==
    /\ Identified
    /\ text = "xyz" /\ NoSignalIn(text)
    /\ filename = "notes.txt" /\ NoKeywordIn(filename)
    /\ result = UNKNOWN

RfiCase == Identified /\ Contains(text, "RFI-102") /\ filename = "RFI-102.pdf"

\* C3 as stated: a text containing "RFI-102" with the filename "RFI-102.pdf" is
\* classified RFI, the RFI score being at least that of every competing type.
C3_RfiWhenTextContains ==
    RfiCase => result = "RFI" /\ \A i \in TypeIndex : scores[1].score >= scores[i].score

\* C3 amended: for a text containing "RFI-102" and the filename "RFI-102.pdf" the
\* RFI score is at least 6 (keyword 2, pattern 3, keyword in the filename 1) and
\* the result is RFI exactly when no competing type scores more than RFI, as is
\* the case when the text is "RFI-102" itself.
C3_RfiUnlessOutscored ==
    RfiCase =>
        /\ scores[1].doc_type = "RFI" /\ scores[1].score >= 6
        /\ result = "RFI" <=> \A i \in TypeIndex : scores[1].score >= scores[i].score
        /\ text = "RFI-102" => result = "RFI"

C3_Witness ==
    RfiCase /\ text = "RFI-102" /\ result = "RFI" /\ scores[1].score = 6

\* C4: the result is the type of maximal score, the first in rule-table order when
\* several share the maximum, and UNKNOWN exactly when the maximal score is 0.
C4_FirstMaximalType ==
    Identified =>
        /\ result = UNKNOWN <=> MaxScore = 0
        /\ MaxScore > 0 =>
              result = scores[Min({i \in DOMAIN scores : scores[i].score = MaxScore})].doc_type

C4_Witness ==
    /\ Identified
    /\ MaxScore > 0
    /\ Cardinality({i \in DOMAIN scores : scores[i].score = MaxScore}) > 1
    /\ result = "SPECIFICATION"

\* C5: the score of each type is 2 x (its keywords occurring in the text) + 3 x (its
\* patterns matching the text) + 1 x (its keywords occurring in the filename), each
\* keyword and pattern counted once, from that type's rules alone.
C5_ScoreFormula ==
    Identified =>
        /\ DOMAIN scores = TypeIndex
        /\ \A i \in TypeIndex :
              /\ scores[i].doc_type = document_types[i].name
              /\ scores[i].score = 2 * Cardinality(KeywordsIn(i, text))
                                   + 3 * Cardinality(PatternsIn(i, text))
                                   + Cardinality(KeywordsIn(i, filename))

\* a keyword occurs twice in the text and is counted once
C5_Witness ==
    /\ Identified
    /\ text = "planplan"
    /\ Cardinality(Occurrences(Upper(text), "PLAN")) = 2
    /\ scores[6].doc_type = "DRAWING" /\ scores[6].score = 5

(***************************************************************************)
(* Properties of parse_document (Spec).                                    *)
(***************************************************************************)
\* the positions at which a whitespace-separated token of s begins
TokenStarts(s) ==
    {i \in 1..Len(s) : Char(s, i) \notin Space /\ (i = 1 \/ Char(s, i - 1) \in Space)}

\* C6: in every non-error record word_count is the number of whitespace-separated
\* tokens of text_content and char_count its length, whichever extractor produced
\* the text, placeholders and error strings included.
C6_CountsMatchText ==
    pc = "parsed" /\ ~IsErrorRecord(record) =>
        /\ record.word_count = Cardinality(TokenStarts(record.text_content))
        /\ record.char_count = Len(record.text_content)

\* the record of a PDF whose text holds an OCR placeholder
C6_Witness ==
    /\ pc = "parsed"
    /\ ~IsErrorRecord(record)
    /\ Contains(record.text_content, MoreTextPlaceholder)
    /\ record.word_count = 20
    /\ record.char_count = 119

EmptyOrMissing == path.path = "" \/ ~path.exists

\* C7: for an empty path or a path to a file that does not exist parse_document
\* returns a record with an error field, runs no extractor and no classification,
\* and raises nothing.
C7_ErrorRecordWithoutWork ==
    pc \in {"parsed", "raised"} /\ EmptyOrMissing =>
        /\ pc = "parsed"
        /\ IsErrorRecord(record)
        /\ calls = <<>>

C7_Witness ==
    /\ pc = "parsed"
    /\ path = MissingPdf
    /\ record = ErrorRecord("File not found")
    /\ calls = <<>>

EndsWith(s, suffix) ==
    Len(suffix) <= Len(s) /\ SubSeq(s, Len(s) - Len(suffix) + 1, Len(s)) = suffix

\* C13: parse_document chooses the extractor from the lower-cased extension of
\* the path alone (.pdf, .docx, .xlsx or .xls, .txt), whatever the file holds;
\* every other extension of an existing file gives the 'Unsupported file type'
\* error record, and no extractor and no classifier is invoked for it.
C13_ExtractorFromExtensionAlone ==
    pc = "parsed" /\ path.exists =>
        LET p == Lower(path.path)
            classified(extractor) == calls = <<extractor, "identify_document_type">>
        IN  /\ EndsWith(p, ".pdf") => classified("extract_text_from_pdf")
            /\ EndsWith(p, ".docx") => classified("extract_text_from_docx")
            /\ EndsWith(p, ".xlsx") \/ EndsWith(p, ".xls") =>
                    classified("extract_text_from_excel")
            /\ EndsWith(p, ".txt") => classified("open") \/ calls = <<"open">>
            /\ ~(\E ext \in {".pdf", ".docx", ".xlsx", ".xls", ".txt"} : EndsWith(p, ext)) =>
                    /\ IsErrorRecord(record)
                    /\ StartsWith(record.error, "Unsupported file type: ")
                    /\ calls = <<>>

\* an upper-case extension reaches the PDF extractor
C13_Witness ==
    /\ pc = "parsed"
    /\ path = UpperPdf
    /\ calls = <<"extract_text_from_pdf", "identify_document_type">>
    /\ ~IsErrorRecord(record)

(***************************************************************************)
(* SpecDir: one call of parse_directory(directory_path).  rglob('*') is a  *)
(* generator: each turn of the loop takes the entry it yields next.        *)
(***************************************************************************)
InitDir ==
    /\ pc = "parse_directory"
    /\ env \in DirEnvs
    /\ listing = <<>> /\ idx = 0 /\ documents = <<>>
    /\ text = "" /\ filename = "" /\ scores = <<>> /\ result = None
    /\ path = NoFile /\ record = None /\ calls = <<>>
    /\ extracted = None
    /\ OcrIdle /\ AiIdle /\ parser = NewParser /\ history = <<>>

\* for file_path in directory.rglob('*'): one turn
ScanStep ==
    /\ pc = "parse_directory"
    /\ idx < MaxFiles
    /\ \E file \in DirEntries :
        /\ listing' = Append(listing, file)
        /\ idx' = idx + 1
        /\ IF Selected(file)
           THEN LET doc_data == IF parser = NewParser THEN ParsedEntry(env, file)
                                ELSE parse_document(parser, env, file).record
                IN  /\ parser' = AttributesAfter(parser, env, file)
                    /\ IF Raised(doc_data)
                       THEN pc' = "raised" /\ documents' = documents
                       ELSE pc' = pc /\ documents' = Append(documents, doc_data)
           ELSE pc' = pc /\ documents' = documents /\ parser' = parser
    /\ UNCHANGED <<env, clsVars, parseVars, extracted, ocrVars, aiVars, history>>

\* the generator is exhausted: return documents
ScanReturn ==
    /\ pc = "parse_directory"
    /\ pc' = "returned"
    /\ UNCHANGED <<env, clsVars, parseVars, dirVars, extracted, ocrVars, aiVars, objVars>>

NextDir == ScanStep \/ ScanReturn

SpecDir == InitDir /\ [][NextDir]_vars

(***************************************************************************)
(* SpecPdf: one call of extract_text_from_pdf(file_path).                  *)
(***************************************************************************)
InitPdf ==
    /\ pc = "extract_text_from_pdf"
    /\ env \in Envs
    /\ path \in PdfFiles
    /\ text = "" /\ filename = "" /\ scores = <<>> /\ result = None
    /\ record = None /\ calls = <<>>
    /\ listing = <<>> /\ idx = 0 /\ documents = <<>>
    /\ extracted = None
    /\ OcrIdle /\ AiIdle /\ parser = NewParser /\ history = <<>>

ExtractTextFromPdf ==
    /\ pc = "extract_text_from_pdf"
    /\ extracted' = extract_text_from_pdf(parser, env, path)
    /\ pc' = IF extract_text_from_pdf(parser, env, path).raised # "" THEN "raised" ELSE "extracted"
    /\ UNCHANGED <<env, clsVars, parseVars, dirVars, ocrVars, aiVars, objVars>>

NextPdf == ExtractTextFromPdf

SpecPdf == InitPdf /\ [][NextPdf]_vars

(***************************************************************************)
(* Properties of parse_directory (SpecDir).                                *)
(***************************************************************************)
\* the files the batch filter lets through, in scan order
SelectedFiles == SelectSeq(listing, Selected)

\* a file that is corrupt or unreadable
Corrupt(file) == file.content.kind \in {"garbage", "bad_utf8"}

\* a file of the format its extension names
Valid(file) ==
    \/ file.content.kind = "pdf"  /\ Lower(PathSuffix(file.path)) = ".pdf"
    \/ file.content.kind = "docx" /\ Lower(PathSuffix(file.path)) = ".docx"
    \/ file.content.kind = "xlsx" /\ Lower(PathSuffix(file.path)) = ".xlsx"
    \/ file.content.kind = "txt"  /\ Lower(PathSuffix(file.path)) = ".txt"

\* an error field, or a text that is an error string
HasErrorIndicator(r) == IsErrorRecord(r) \/ StartsWith(r.text_content, "Error:")

\* C8: in the list parse_directory returns, the record of every file whose
\* extraction failed holds an error indicator and the record of every file whose
\* extraction succeeded holds populated text_content and no error indicator.
C8_FailuresCarryErrorIndicator ==
    pc = "returned" /\ Len(documents) = Len(SelectedFiles) =>
        \A k \in 1..Len(documents) :
            /\ Corrupt(SelectedFiles[k]) => HasErrorIndicator(documents[k])
            /\ Valid(SelectedFiles[k]) =>
                  ~HasErrorIndicator(documents[k]) /\ documents[k].text_content # ""

\* C9: parse_directory returns exactly one record for each file of the tree whose
\* extension is supported, in scan order, and none for any other entry; no file
\* aborts the scan, so the files after a failing file are parsed too.
C9_OneRecordPerSupportedFile ==
    /\ pc \in {"parse_directory", "returned"}
    /\ idx = Len(listing)
    /\ Len(documents) = Len(SelectedFiles)
    /\ \A k \in 1..Len(documents) :
          \/ IsErrorRecord(documents[k])
          \/ documents[k].file_path = SelectedFiles[k].path

\* a file that cannot be read, an unsupported file, then a file parsed all the same
C9_Witness ==
    /\ pc = "returned"
    /\ listing = <<BadTxt, Photo, NotesTxt>>
    /\ Len(documents) = 2
    /\ IsErrorRecord(documents[1])
    /\ documents[2].filename = "notes.txt"

Unsupported(r) == IsErrorRecord(r) /\ StartsWith(r.error, "Unsupported file type")

\* C22: parse_document has a dispatch branch for every extension the batch
\* filter of parse_directory accepts: no file the scan selected, a .doc file
\* in particular, is returned as an 'Unsupported file type' error record.
C22_SelectedFilesAreDispatched ==
    \A k \in 1..Len(documents) : ~Unsupported(documents[k])

(***************************************************************************)
(* Properties of extract_text_from_pdf (SpecPdf).                          *)
(***************************************************************************)
Range(f) == {f[i] : i \in DOMAIN f}

PageMark(page_num) == "--- Page " \o IntToStr(page_num) \o " "

\* the part of the returned text that belongs to one page: from its delimiter to
\* the delimiter of the next page
PageSection(t, page_num) ==
    LET starts == Occurrences(t, PageMark(page_num))
    IN  IF starts = {} THEN ""
        ELSE LET from  == Min(starts)
                 nexts == {i \in Occurrences(t, PageMark(page_num + 1)) : i > from}
             IN  SubSeq(t, from, IF nexts = {} THEN Len(t) ELSE Min(nexts) - 1)

\* OCR ran on the page and produced output
OcrProduced(page_num) ==
    /\ page_num \in Range(extracted.ocr_pages)
    /\ path.content.pages[page_num].ocr_text # ""

\* C10: for every page whose native text is below the 50-character threshold and
\* for which OCR produced output, that output appears in the text returned for the
\* page, whether the page has no native text or some.
C10_OcrOutputAppears ==
    pc = "extracted" =>
        \A n \in 1..Len(path.content.pages) :
            Len(Strip(path.content.pages[n].native)) < 50 /\ OcrProduced(n) =>
                Contains(PageSection(extracted.text, n), path.content.pages[n].ocr_text)

\* the pages whose native text, stripped, is shorter than 50 characters
ShortPages ==
    {n \in 1..Len(path.content.pages) : Len(Strip(path.content.pages[n].native)) < 50}

\* the pymupdf strategy ran to its end
PymupdfCompleted == env.HAS_PYMUPDF /\ ~path.content.fitz_raises

StrategyOrder == <<"pymupdf", "pdfplumber", "PyPDF2">>

Available(i) ==
    IF i = 1 THEN env.HAS_PYMUPDF ELSE IF i = 2 THEN env.HAS_PDFPLUMBER ELSE env.HAS_PYPDF2

Fails(i) ==
    IF i = 1 THEN path.content.fitz_raises
    ELSE IF i = 2 THEN path.content.plumber_raises
    ELSE path.content.pypdf_raises

\* C14: extract_text_from_pdf never raises: for every combination of installed
\* libraries and of libraries failing on the file it returns a string, and
\* when every installed strategy has failed that string is an explicit error
\* string.
C14_PdfExtractionNeverRaises ==
    /\ pc # "raised"
    /\ pc = "extracted" =>
          /\ extracted.text \in STRING
          /\ (\A i \in 1..3 : Available(i) => Fails(i)) =>
                StartsWith(extracted.text, "Error:")

\* all three libraries installed, all three raising on the file
C14_Witness ==
    /\ pc = "extracted"
    /\ \A i \in 1..3 : Available(i) /\ Fails(i)
    /\ extracted.tried = StrategyOrder
    /\ extracted.text = "Error: " \o PdfErrorMessage

\* strategy i is reached: it is installed and every installed one before it raised
Reached(i) == Available(i) /\ \A j \in 1..(i - 1) : Available(j) => Fails(j)

\* what strategy i returns when it does not raise
StrategyText(i) ==
    IF i = 1 THEN PymupdfText(parser, env, path.content).text
    ELSE IF i = 2 THEN PdfplumberText(path.content)
    ELSE PyPdf2Text(path.content.pages, 1)

\* C15: the strategies are tried in the fixed order pymupdf, pdfplumber,
\* PyPDF2; one is attempted only if it is installed and every installed one
\* before it raised; the result is that of the first strategy that completes
\* without raising, and no later strategy is attempted.
C15_FirstCompletingStrategyWins ==
    pc = "extracted" =>
        /\ extracted.tried = SelectSeq(StrategyOrder,
                LAMBDA s : \E i \in 1..3 : StrategyOrder[i] = s /\ Reached(i))
        /\ \A i \in 1..3 :
                Reached(i) /\ ~Fails(i) =>
                    /\ extracted.text = StrategyText(i)
                    /\ \A j \in (i + 1)..3 : StrategyOrder[j] \notin Range(extracted.tried)

\* pymupdf raises, pdfplumber completes, PyPDF2 is installed and left alone
C15_Witness ==
    /\ pc = "extracted"
    /\ \A i \in 1..3 : Available(i)
    /\ Fails(1) /\ ~Fails(2)
    /\ extracted.tried = <<"pymupdf", "pdfplumber">>
    /\ extracted.text = PdfplumberText(path.content)
    /\ Len(path.content.pages) = 2

\* strategy i produced the returned text
Produced(i) == Reached(i) /\ ~Fails(i)

\* what strategy i writes for the page apart from delimiters and placeholders:
\* its text, and under pdfplumber the heading of its tables
PageOutput(i, page_num) ==
    LET page == path.content.pages[page_num]
    IN  (IF Strip(page.native) # "" THEN {page.native} ELSE {})
        \cup (IF i = 2 /\ Len(page.tables) > 0
              THEN {"[Tables on page " \o IntToStr(page_num) \o "]\n"} ELSE {})

\* strategy i writes something for the page: pymupdf and PyPDF2 write a
\* placeholder for a page without text, pdfplumber writes nothing
WritesPage(i, page_num) == i # 2 \/ PageOutput(i, page_num) # {}

\* C27: the 'No PDF extraction library available' error is returned only when
\* none of the three PDF libraries is available; when some library was
\* available and every available library raised, the returned error reports
\* the extraction failure.
C27_NoLibraryErrorOnlyWithoutLibraries ==
    pc = "extracted" =>
        /\ extracted.text = NoPdfLibrary => \A i \in 1..3 : ~Available(i)
        /\ (\E i \in 1..3 : Available(i)) /\ (\A i \in 1..3 : Available(i) => Fails(i)) =>
              extracted.text = "Error: " \o PdfErrorMessage

\* C21: whichever strategy produced the text, what it wrote for a page, with
\* or without extractable text, comes after a delimiter carrying the number
\* of that page and before the delimiter of the next.
C21_PageOutputUnderItsDelimiter ==
    pc = "extracted" =>
        \A i \in 1..3 : \A n \in 1..Len(path.content.pages) :
            Produced(i) /\ WritesPage(i, n) =>
                /\ Contains(extracted.text, PageMark(n))
                /\ \A out \in PageOutput(i, n) :
                        Contains(PageSection(extracted.text, n), out)

(***************************************************************************)
(* SpecOcr: one call of _extract_text_with_ocr(page_image, page_num).      *)
(***************************************************************************)
RepeatedText == "NOTE NOTE NOTE NOTE SEE DETAIL A-1"
LabelText    == "GRID B"
CaptionText  == "Grid B and many more words are here"
NotesText    == "GENERAL NOTES SEE STRUCTURAL DRAWINGS FOR COLUMN C GRID A1 12.5 m"
NotesAgain   == "general notes see structural drawings for column C grid A1 12.5 M x\n"

\* what Tesseract can read in a region of the page
OcrTexts == {"", LabelText, RepeatedText, CaptionText, NotesText, NotesAgain}

OcrOutcomes == {Returned(t) : t \in OcrTexts} \cup {RaisedWith(TesseractNotFoundError)}

TitleOutcomes ==
    {Returned(""), Returned(LabelText), Returned(RepeatedText),
     RaisedWith(TesseractNotFoundError)}

OcrEnvs == {e \in Envs : e.HAS_PYMUPDF /\ e.HAS_PDFPLUMBER /\ e.HAS_PYPDF2}

InitOcr ==
    /\ pc = "_extract_text_with_ocr"
    /\ env \in OcrEnvs
    /\ tesseract \in [title : TitleOutcomes, uniform : OcrOutcomes,
                      sparse : OcrOutcomes, auto : OcrOutcomes]
    /\ ocr_result = None
    /\ text = "" /\ filename = "" /\ scores = <<>> /\ result = None
    /\ path = NoFile /\ record = None /\ calls = <<>>
    /\ listing = <<>> /\ idx = 0 /\ documents = <<>>
    /\ extracted = None
    /\ AiIdle /\ parser = NewParser /\ history = <<>>

ExtractTextWithOcr ==
    /\ pc = "_extract_text_with_ocr"
    /\ ocr_result' \in _extract_text_with_ocr(parser, env, tesseract)
    /\ pc' = "merged"
    /\ UNCHANGED <<env, clsVars, parseVars, dirVars, extracted, tesseract, aiVars, objVars>>

NextOcr == ExtractTextWithOcr

SpecOcr == InitOcr /\ [][NextOcr]_vars

(***************************************************************************)
(* Properties of _extract_text_with_ocr (SpecOcr).                         *)
(***************************************************************************)
Modes == {"TITLE BLOCK", "Uniform Block", "Sparse Text", "Auto"}

\* what Tesseract did in the region or mode of a section
PassOf(mode) ==
    IF mode = "TITLE BLOCK" THEN tesseract.title
    ELSE IF mode = "Uniform Block" THEN tesseract.uniform
    ELSE IF mode = "Sparse Text" THEN tesseract.sparse
    ELSE tesseract.auto

\* the text a pass contributed, stripped
PassText(mode) == Strip(PassOf(mode).out)

\* the pass returned text of the length its mode asks for
AcceptedPass(mode) ==
    /\ PassOf(mode).raises = ""
    /\ PassText(mode) # ""
    /\ mode = "Sparse Text" => Len(PassText(mode)) > 20
    /\ mode = "Auto" => Len(PassText(mode)) > 50

RetainedPass(mode) == \E i \in 1..Len(ocr_result.retained) : ocr_result.retained[i] = mode

\* the words two passes share are more than 80% of the words of the first
OverlapAbove80(a, b) ==
    5 * Cardinality(WordSet(Lower(PassText(a))) \cap WordSet(Lower(PassText(b))))
        > 4 * Len(Split(PassText(a)))

\* C12: in the merged OCR output of one page, of any two accepted pass outputs
\* (title block, uniform block, sparse text, automatic) whose word sets overlap
\* above 80% of one pass's word count only one is retained; two passes that
\* read identical text are never both retained.
C12_OverlappingPassesRetainedOnce ==
    pc = "merged" /\ env.HAS_TESSERACT =>
        \A a, b \in Modes :
            /\ a # b /\ AcceptedPass(a) /\ AcceptedPass(b)
            /\ OverlapAbove80(a, b) \/ PassText(a) = PassText(b)
            => ~(RetainedPass(a) /\ RetainedPass(b))

\* Tesseract's binary is missing: every call of pytesseract on the page raises
\* TesseractNotFoundError
BinaryMissingOn(n) == path.content.pages[n].passes = BinaryMissing

\* C16: when a page needs OCR and recognition cannot run, nothing is raised and
\* the returned text holds an error string for that page: the 'OCR not
\* available' string when the Python OCR packages are not installed, the
\* 'Tesseract binary not found' string with the install instructions when the
\* binary is missing.
C16_OcrFailureNamedInText ==
    /\ pc # "raised"
    /\ pc = "extracted" /\ PymupdfCompleted =>
          \A n \in ShortPages :
              /\ ~env.HAS_TESSERACT =>
                    Contains(PageSection(extracted.text, n), OcrPackagesMissing)
              /\ env.HAS_TESSERACT /\ path.content.pages[n].image_ok /\ BinaryMissingOn(n) =>
                    Contains(PageSection(extracted.text, n), OcrBinaryMissing)

(***************************************************************************)
(* SpecDetect: one call of ConstructionAI.detect_document_type.            *)
(***************************************************************************)
AiFilenames ==
    {"Contract_A.pdf", "spec-03.docx", "RFI-102.pdf", "Submittal 4.pdf", "Site Plan.pdf",
     "Record.pdf", "Addendum 2.pdf", "Shop Drawing S1.pdf", "As-Built L2.pdf",
     "notes.txt", "IMG_001.pdf", ""}

\* 49 characters between blanks: 52 characters, 49 of them stripped
PaddedText == " " \o NearText \o " "

AiTexts == {"", " \n", "Pour schedule", NearText, PaddedText, EdgeText, LongText}

Fail(kind) == [fails |-> kind, content |-> ""]
Say(content) == [fails |-> "", content |-> content]

\* the request fails in transport or on quota, or its response has no choice
\* or no content
LlmFailures == {"APIConnectionError", "RateLimitError", "IndexError", "AttributeError"}

LlmResponses ==
    {"contract", " RFI\n", "Change Order", "shop drawing.", "This is a drawing", "as_built",
     "unknown", "", "  \n", "c", "draw", "invoice", "n/a", "schedule of values"}

Completions == {Fail(k) : k \in LlmFailures} \cup {Say(c) : c \in LlmResponses}

InitDetect ==
    /\ pc = "detect_document_type"
    /\ env = NoEnv
    /\ filename \in AiFilenames
    /\ text \in AiTexts
    /\ llm \in Completions
    /\ llm_calls = 0
    /\ scores = <<>> /\ result = None
    /\ path = NoFile /\ record = None /\ calls = <<>>
    /\ listing = <<>> /\ idx = 0 /\ documents = <<>>
    /\ extracted = None
    /\ OcrIdle /\ parser = NewParser /\ history = <<>>

DetectDocumentType ==
    /\ pc = "detect_document_type"
    /\ LET out == detect_document_type(filename, text, llm)
       IN  /\ result' = out.type
           /\ llm_calls' = out.llm_calls
           /\ pc' = IF out.raised # "" THEN "raised" ELSE "detected"
    /\ UNCHANGED <<env, text, filename, scores, parseVars, dirVars, extracted, ocrVars,
                   llm, objVars>>

NextDetect == DetectDocumentType

SpecDetect == InitDetect /\ [][NextDetect]_vars

(***************************************************************************)
(* Claims about ConstructionAI.detect_document_type (SpecDetect).          *)
(***************************************************************************)
\* the response as line 196 and lines 203-204 leave it
Normalized(content) == Replace(Lower(Strip(content)), " ", "_")

\* a valid type name occurs in the normalized response
NamesValidType(content) ==
    \E i \in 1..Len(valid_types) : Contains(Normalized(content), valid_types[i])

Answered == pc = "detected" /\ llm_calls = 1 /\ llm.fails = ""

\* C17: the returned type is a member of the closed set for every filename,
\* text and response, and a response that names no valid type, the empty
\* response included, yields unknown.
C17_InvalidResponseYieldsUnknown ==
    /\ pc = "detected" => result \in Range(valid_types)
    /\ Answered /\ ~NamesValidType(llm.content) => result = "unknown"

LlmFailed == pc # "detect_document_type" /\ llm_calls = 1 /\ llm.fails # ""

\* C18: when the request made by detect_document_type fails (transport,
\* quota, a response object without a choice or without content), the call
\* returns unknown and no exception leaves it.
C18_FailedRequestYieldsUnknown ==
    /\ pc # "raised"
    /\ LlmFailed => pc = "detected" /\ result = "unknown"

C18_Witness == LlmFailed /\ llm.fails = "IndexError" /\ pc = "detected" /\ result = "unknown"

FilenameDecides == FilenameRule(Lower(filename), 1) # None

\* the number of characters of s that are not whitespace
NonBlank(s) == Cardinality(Inked(s))

\* C19 as stated: a request is made only when no filename rule matched and the
\* text has at least 50 characters that are not blank, at most one request is
\* made, and a matching filename rule decides without a request.
C19_RequestOnlyForFiftyNonBlank ==
    pc = "detected" =>
        /\ llm_calls <= 1
        /\ llm_calls = 1 => ~FilenameDecides /\ NonBlank(text) >= min_content
        /\ FilenameDecides => llm_calls = 0

\* C19 amended: exactly one request is made when no filename rule matched and
\* the text, stripped of leading and trailing whitespace, has at least 50
\* characters (blanks inside it counted), and none otherwise; a matching
\* filename rule decides the type without a request.
C19_RequestIffFiftyStripped ==
    pc = "detected" =>
        /\ llm_calls \in {0, 1}
        /\ llm_calls = 1 <=> ~FilenameDecides /\ Len(Strip(text)) >= min_content
        /\ FilenameDecides => llm_calls = 0 /\ result = FilenameRule(Lower(filename), 1)

\* a request for a text of 50 stripped characters, and none for the same
\* text under a deciding filename
C19_Witness ==
    /\ pc = "detected" /\ text = EdgeText
    /\ \/ filename = "notes.txt" /\ llm_calls = 1
       \/ filename = "Record.pdf" /\ llm_calls = 0 /\ result = "change_order"

(***************************************************************************)
(* SpecSession: one ConstructionDocumentParser instance on which           *)
(* parse_document is called several times, the calls overlapping in any    *)
(* way.  history holds the calls in the order they began, [file, record],  *)
(* record being Running until the call returns.                            *)
(***************************************************************************)
MaxCalls == 3

Running == [running |-> TRUE]

SessionFiles == {NotesTxt, RfiPdf, ContractDoc, MissingPdf, Photo}

SessionEnvs == {NoEnv, [NoEnv EXCEPT !.HAS_PYMUPDF = FALSE]}

\* the record a newly built instance returns for each file of the session
FreshRecords ==
    {[env |-> e, file |-> file, doc_data |-> parse_document(NewParser, e, file).record] :
        e \in SessionEnvs, file \in SessionFiles}

FreshRecord(e, file) ==
    (CHOOSE p \in FreshRecords : p.env = e /\ p.file = file).doc_data

InitSession ==
    /\ pc = "session"
    /\ env \in SessionEnvs
    /\ parser = NewParser
    /\ history = <<>>
    /\ text = "" /\ filename = "" /\ scores = <<>> /\ result = None
    /\ path = NoFile /\ record = None /\ calls = <<>>
    /\ listing = <<>> /\ idx = 0 /\ documents = <<>>
    /\ extracted = None
    /\ OcrIdle /\ AiIdle

\* a caller enters parse_document(file_path)
SessionCall ==
    /\ pc = "session"
    /\ Len(history) < MaxCalls
    /\ \E file \in SessionFiles : history' = Append(history, [file |-> file, record |-> Running])
    /\ UNCHANGED <<pc, env, clsVars, parseVars, dirVars, extracted, ocrVars, aiVars, parser>>

\* one of the calls under way runs on the instance as it is and returns
SessionReturn ==
    /\ pc = "session"
    /\ \E i \in DOMAIN history :
        /\ history[i].record = Running
        /\ history' = [history EXCEPT
                          ![i].record = IF parser = NewParser
                                        THEN FreshRecord(env, history[i].file)
                                        ELSE parse_document(parser, env,
                                                            history[i].file).record]
        /\ parser' = AttributesAfter(parser, env, history[i].file)
    /\ UNCHANGED <<pc, env, clsVars, parseVars, dirVars, extracted, ocrVars, aiVars>>

NextSession == SessionCall \/ SessionReturn

SpecSession == InitSession /\ [][NextSession]_vars

\* C28: every type that has a filename rule is reachable through that rule: a
\* filename containing 'shop drawing' is classified shop_drawing, one
\* containing 'addendum' addendum, one containing 'as-built' or 'as built'
\* as_built.
C28_FilenameRulesReachable ==
    pc = "detected" =>
        LET filename_lower == Lower(filename)
        IN  /\ Contains(filename_lower, "shop drawing") => result = "shop_drawing"
            /\ Contains(filename_lower, "addendum") => result = "addendum"
            /\ Contains(filename_lower, "as-built") \/ Contains(filename_lower, "as built") =>
                  result = "as_built"

SheetText  == "A-101\n"
GridText   == "B2\n"
Sparse20   == "LOBBY CEILING TYPE 2\n"                                  \* 20 characters, stripped
Sparse21   == "LOBBY CEILING TYPE 12"                                   \* 21 characters
Auto50     == " FINISH FLOOR ELEVATION AT NORTH STAIR SEE DETAIL 5\n"   \* 50 characters, stripped
Auto51     == "FINISH FLOOR ELEVATION AT NORTH STAIR SEE DETAIL 15"     \* 51 characters

RuntimeError == "RuntimeError"

TitleReads   == {Returned(""), Returned(" \n"), Returned(SheetText), RaisedWith(RuntimeError)}
UniformReads == {Returned(" \n"), Returned(GridText), Returned(Sparse21),
                 RaisedWith(TesseractNotFoundError)}
SparseReads  == {Returned(""), Returned(Sparse20), Returned(Sparse21), RaisedWith(RuntimeError)}
AutoReads    == {Returned(""), Returned(Auto50), Returned(Auto51), RaisedWith(RuntimeError)}

InitPasses ==
    /\ pc = "_extract_text_with_ocr"
    /\ env \in OcrEnvs
    /\ tesseract \in [title : TitleReads, uniform : UniformReads,
                      sparse : SparseReads, auto : AutoReads]
    /\ ocr_result = None
    /\ text = "" /\ filename = "" /\ scores = <<>> /\ result = None
    /\ path = NoFile /\ record = None /\ calls = <<>>
    /\ listing = <<>> /\ idx = 0 /\ documents = <<>>
    /\ extracted = None
    /\ AiIdle /\ parser = NewParser /\ history = <<>>

SpecPasses == InitPasses /\ [][NextOcr]_vars

(***************************************************************************)
(* Properties of the passes and of the merge (SpecPasses).                 *)
(***************************************************************************)
SectionOrder ==
    <<"TITLE BLOCK", "Uniform Block", "Sparse Text", "Auto", "CONSTRUCTION PATTERNS">>

\* where the heading of a section stands in the returned text
SectionAt(label) == Occurrences(ocr_result.text, "[" \o label \o "]\n")

Merged == pc = "merged" /\ env.HAS_TESSERACT

\* C23: the sections of the merged output stand in a fixed order: [TITLE BLOCK]
\* first whenever the title-block pass returned text, then the retained
\* whole-page passes in the order uniform block, sparse text, automatic, and
\* the [CONSTRUCTION PATTERNS] block last.
C23_SectionsInFixedOrder ==
    Merged =>
        /\ PassText("TITLE BLOCK") # "" => StartsWith(ocr_result.text, "[TITLE BLOCK]\n")
        /\ \A m \in Modes : RetainedPass(m) => SectionAt(m) # {}
        /\ \A i, j \in 1..Len(SectionOrder) :
              i < j => \A p \in SectionAt(SectionOrder[i]) :
                       \A q \in SectionAt(SectionOrder[j]) : p < q

\* the title block, the three passes and the patterns, all in the output
C23_Witness ==
    /\ Merged
    /\ ocr_result.retained = <<"TITLE BLOCK", "Uniform Block", "Sparse Text", "Auto">>
    /\ \A i \in 1..Len(SectionOrder) : SectionAt(SectionOrder[i]) # {}

WholePageModes == {"Uniform Block", "Sparse Text", "Auto"}

\* C24: a whole-page pass is merged only above the length of its mode: the
\* sparse-text output only when its stripped length exceeds 20 characters,
\* the automatic output only above 50, the uniform-block output whenever it
\* is not empty; an output at or below its threshold has no section in the
\* merged text.
C24_PassesMergedAboveThreshold ==
    Merged =>
        /\ RetainedPass("Sparse Text") =>
              PassOf("Sparse Text").raises = "" /\ Len(PassText("Sparse Text")) > 20
        /\ RetainedPass("Auto") =>
              PassOf("Auto").raises = "" /\ Len(PassText("Auto")) > 50
        /\ PassText("Uniform Block") # "" => RetainedPass("Uniform Block")
        /\ \A m \in WholePageModes :
              ~AcceptedPass(m) => ~RetainedPass(m) /\ SectionAt(m) = {}

\* the sparse-text pass read exactly 20 characters and was dropped, the
\* automatic pass read 51 and was merged
C24_Witness ==
    /\ Merged
    /\ tesseract.sparse = Returned(Sparse20) /\ ~RetainedPass("Sparse Text")
    /\ tesseract.auto = Returned(Auto51) /\ RetainedPass("Auto")
    /\ RetainedPass("Uniform Block")

(***************************************************************************)
(* SpecPatterns: _extract_text_with_ocr on pages dense with sheet          *)
(* references, as an index sheet is.                                       *)
(***************************************************************************)
IndexText == "A-1 A-2 A-3 B1 B2 B3 SHEET 1 SHEET 2 SHEET 3 DWG 1 DWG 2"
ShortIndex == "A-1 SHEET 2"
PlainText == "lobby"

IndexReads == {Returned(""), Returned(PlainText), Returned(ShortIndex), Returned(IndexText)}

InitPatterns ==
    /\ pc = "_extract_text_with_ocr"
    /\ env \in OcrEnvs
    /\ tesseract \in [title : {Returned(""), RaisedWith(RuntimeError)},
                      uniform : IndexReads,
                      sparse : {Returned("")},
                      auto : {Returned(""), RaisedWith(RuntimeError)}]
    /\ ocr_result = None
    /\ text = "" /\ filename = "" /\ scores = <<>> /\ result = None
    /\ path = NoFile /\ record = None /\ calls = <<>>
    /\ listing = <<>> /\ idx = 0 /\ documents = <<>>
    /\ extracted = None
    /\ AiIdle /\ parser = NewParser /\ history = <<>>

SpecPatterns == InitPatterns /\ [][NextOcr]_vars

(***************************************************************************)
(* Properties of the pattern block (SpecPatterns).                         *)
(***************************************************************************)
PatternsHeader == "[CONSTRUCTION PATTERNS]\n"

\* s.split(sep)
RECURSIVE Pieces(_, _, _, _)
Pieces(s, sep, from, p) ==
    IF p + Len(sep) - 1 > Len(s) THEN <<SubSeq(s, from, Len(s))>>
    ELSE IF SubSeq(s, p, p + Len(sep) - 1) = sep
         THEN <<SubSeq(s, from, p - 1)>> \o Pieces(s, sep, p + Len(sep), p + Len(sep))
         ELSE Pieces(s, sep, from, p + 1)

\* the returned text up to the pattern block, and the lines of the block
BlockAt == Occurrences(ocr_result.text, PatternsHeader)
BeforeBlock ==
    IF BlockAt = {} THEN ocr_result.text
    ELSE SubSeq(ocr_result.text, 1, Max(BlockAt) - 1)
BlockLines ==
    IF BlockAt = {} THEN <<>>
    ELSE Pieces(SubSeq(ocr_result.text, Max(BlockAt) + Len(PatternsHeader),
                       Len(ocr_result.text)), "\n", 1, 1)

\* the matches the block lists under a category
ListedUnder(category) ==
    UNION {SetOf(Pieces(SubSeq(BlockLines[i], Len(category) + 3, Len(BlockLines[i])),
                        ", ", 1, 1)) :
            i \in {j \in 1..Len(BlockLines) :
                     StartsWith(BlockLines[j], Upper(category) \o ": ")}}

Categories == {construction_keywords[c].category : c \in 1..Len(construction_keywords)}

SomePatternMatches(t) ==
    \E c \in 1..Len(construction_keywords) :
        \E k \in 1..Len(construction_keywords[c].patterns) :
            FindAll(construction_keywords[c].patterns[k], t, 1) # <<>>

\* C25: the [CONSTRUCTION PATTERNS] block lists at most 10 distinct matches
\* for each category, and is there only if some pattern of some category
\* matched the merged text.
C25_TenMatchesPerCategory ==
    Merged =>
        /\ \A category \in Categories : Cardinality(ListedUnder(category)) <= MaxListed
        /\ BlockAt # {} => SomePatternMatches(BeforeBlock)

(***************************************************************************)
(* SpecOffice: one call of extract_text_from_docx(file_path) or of         *)
(* extract_text_from_excel(file_path), on any path.                        *)
(***************************************************************************)
MaxParagraphs == 2
MaxSheets == 2

RECURSIVE ListsUpTo(_, _)
ListsUpTo(S, n) ==
    IF n = 0 THEN {<<>>}
    ELSE LET shorter == ListsUpTo(S, n - 1)
         IN  shorter \cup {Append(l, x) : l \in shorter, x \in S}

ItemTable == << <<"Item", "Qty">>, <<"Door", "4">> >>

Docx(paragraphs, tables) == [kind |-> "docx", paragraphs |-> paragraphs, tables |-> tables]

\* documents python-docx reads through, and documents with a table row it
\* cannot lay out
WordFiles ==
    {File("specs.docx", Docx(ps, ts)) :
        ps \in ListsUpTo({"", "Scope of Work"}, MaxParagraphs),
        ts \in {<<>>, <<ItemTable>>}}
    \cup {File("specs.docx", Docx(ps, <<ItemTable>>) @@ [unreadable |-> <<1, r>>]) :
        ps \in ListsUpTo({"", "Scope of Work"}, MaxParagraphs), r \in 1..Len(ItemTable)}

PaySheet   == [name |-> "Pay", rows |-> << <<"Invoice", None, "7">> >>]
ChartSheet == [name |-> "Chart1", rows |-> <<>>]

FirstChart(sheets) == Min({k \in 1..Len(sheets) : sheets[k] = ChartSheet})

ExcelFiles ==
    {File("budget.xlsx",
          IF \E k \in 1..Len(sheets) : sheets[k] = ChartSheet
          THEN [kind |-> "xlsx", sheets |-> sheets, chartsheet |-> FirstChart(sheets)]
          ELSE [kind |-> "xlsx", sheets |-> sheets]) :
        sheets \in ListsUpTo({PaySheet, ChartSheet}, MaxSheets)}

MissingDocx == [path |-> "gone.docx", exists |-> FALSE, is_file |-> FALSE,
                content |-> [kind |-> "none"]]
MissingXlsx == [path |-> "gone.xlsx", exists |-> FALSE, is_file |-> FALSE,
                content |-> [kind |-> "none"]]

OfficePaths ==
    WordFiles \cup ExcelFiles
    \cup {MissingDocx, MissingXlsx, CorruptDoc, CorruptXlsx, LegacyXls, Misnamed, Subdir}

InitOffice ==
    /\ pc \in {"extract_text_from_docx", "extract_text_from_excel"}
    /\ env = NoEnv
    /\ path \in OfficePaths
    /\ text = "" /\ filename = "" /\ scores = <<>> /\ result = None
    /\ record = None /\ calls = <<>>
    /\ listing = <<>> /\ idx = 0 /\ documents = <<>>
    /\ extracted = None
    /\ OcrIdle /\ AiIdle /\ parser = NewParser /\ history = <<>>

\* extracted: the string returned, the exception that leaves the call ("":
\* except Exception returns), and what the try block had done
ExtractTextFromDocx ==
    /\ pc = "extract_text_from_docx"
    /\ extracted' = [by |-> "extract_text_from_docx", text |-> extract_text_from_docx(path),
                     raised |-> "", body |-> DocxBody(path)]
    /\ pc' = "office_text"
    /\ UNCHANGED <<env, clsVars, parseVars, dirVars, ocrVars, aiVars, objVars>>

ExtractTextFromExcel ==
    /\ pc = "extract_text_from_excel"
    /\ extracted' = [by |-> "extract_text_from_excel", text |-> extract_text_from_excel(path),
                     raised |-> "", body |-> ExcelBody(path)]
    /\ pc' = "office_text"
    /\ UNCHANGED <<env, clsVars, parseVars, dirVars, ocrVars, aiVars, objVars>>

NextOffice == ExtractTextFromDocx \/ ExtractTextFromExcel

SpecOffice == InitOffice /\ [][NextOffice]_vars

(***************************************************************************)
(* Properties of the Word and Excel extractors (SpecOffice).               *)
(***************************************************************************)
\* the file is missing, or is not one the library of the extractor can read
\* to the end
MissingOrUnparsable ==
    \/ ~path.exists \/ ~path.is_file
    \/ path.content.kind # (IF extracted.by = "extract_text_from_docx" THEN "docx" ELSE "xlsx")
    \/ "unreadable" \in DOMAIN path.content
    \/ "chartsheet" \in DOMAIN path.content

\* C26: for a Word or Excel file that is missing or cannot be parsed,
\* extract_text_from_docx and extract_text_from_excel return the empty string
\* and raise nothing; the text accumulated before the failure is discarded.
C26_FailedOfficeReadReturnsEmpty ==
    pc = "office_text" =>
        /\ MissingOrUnparsable <=> extracted.body.raises # ""
        /\ MissingOrUnparsable => extracted.text = "" /\ extracted.raised = ""

\* a document whose paragraphs and first table row were read before a row
\* could not be laid out
C26_Witness ==
    /\ pc = "office_text"
    /\ extracted.by = "extract_text_from_docx"
    /\ "unreadable" \in DOMAIN path.content
    /\ Contains(extracted.body.text, "Scope of Work\nItem\tQty\t\n")
    /\ extracted.text = ""

\* the whole-page pass is dropped as the duplicate of one retained before it
DuplicateOfEarlier(mode) ==
    \E earlier \in WholePageModes :
        /\ RetainedPass(earlier)
        /\ \E i, j \in 1..Len(SectionOrder) :
              i < j /\ SectionOrder[i] = earlier /\ SectionOrder[j] = mode
        /\ IsDuplicateOf(Lower(PassText(mode)), Lower(PassText(earlier)))

\* C29: the recognition passes are isolated from one another: whatever passes
\* raise, every pass that returned text of the length its mode asks for is in
\* the merged result under its label, unless it duplicates a pass merged
\* before it; the returned string is never empty, and is '[No text
\* extracted]' when no pass produced text.
C29_PassesIsolated ==
    Merged =>
        /\ \A mode \in Modes :
              AcceptedPass(mode) /\ ~DuplicateOfEarlier(mode) =>
                /\ RetainedPass(mode)
                /\ Contains(ocr_result.text, "[" \o mode \o "]\n" \o PassText(mode))
        /\ ocr_result.text # ""
        /\ (\A mode \in Modes : ~AcceptedPass(mode)) <=> ocr_result.text = NoTextExtracted

\* the title-block pass and the uniform-block pass raised, the sparse-text
\* pass after them is merged
C29_Witness ==
    /\ Merged
    /\ tesseract.title.raises # "" /\ tesseract.uniform.raises # ""
    /\ tesseract.sparse = Returned(Sparse21)
    /\ ocr_result.retained[1] = "Sparse Text"
    /\ Contains(ocr_result.text, "[Sparse Text]\n" \o Sparse21)

(***************************************************************************)
(* SpecCase: identify_document_type on texts and filenames in several      *)
(* spellings of their letters' case.                                       *)
(***************************************************************************)
CaseTexts ==
    {"", "rfi 12", "RFI 12", "Rfi 12", "change order", "Change Order", "CHANGE ORDER",
     "Section 5 plan", "SECTION 5 PLAN", "RF" \o CapitalDottedI \o " 12",
     "CS" \o CapitalDottedI \o " 3", "csi 3"}

CaseFilenames ==
    {"RFI-102.pdf", "rfi-102.PDF", "Contract.docx", "CONTRACT.DOCX", "notes.txt",
     "RF" \o CapitalDottedI \o "-7.pdf"}

InitCase ==
    /\ pc = "identify_document_type"
    /\ env = NoEnv
    /\ text \in CaseTexts
    /\ filename \in CaseFilenames
    /\ scores = <<>> /\ result = None
    /\ path = NoFile /\ record = None /\ calls = <<>>
    /\ listing = <<>> /\ idx = 0 /\ documents = <<>>
    /\ extracted = None
    /\ OcrIdle /\ AiIdle /\ parser = NewParser /\ history = <<>>

NextCase == IdentifyDocumentType

SpecCase == InitCase /\ [][NextCase]_vars

(***************************************************************************)
(* Properties of identify_document_type (SpecCase).                        *)
(***************************************************************************)
\* C30: identify_document_type is case-insensitive in both arguments: the
\* returned type is the one returned for the text in lower case, for the text
\* in upper case, and for the filename in lower case and in upper case.
C30_CaseInsensitive ==
    pc = "identified" =>
        /\ result = identify_document_type(parser, Lower(text), filename)
        /\ result = identify_document_type(parser, Upper(text), filename)
        /\ result = identify_document_type(parser, text, Lower(filename))
        /\ result = identify_document_type(parser, text, Upper(filename))

====
